---- MODULE Spec2Model ----
(***************************************************************************)
(* The relationship engine of lila-mcp: the graph-backed server            *)
(* (LilaMCPServer, src/lila_mcp_server.py) and the in-memory fallback      *)
(* server (SimpleLilaMCPServer, src/simple_lila_mcp_server.py).  A client  *)
(* issues every tool call to both servers, so the two stores can be        *)
(* compared call by call.  tasks and running are the coroutines of tool    *)
(* calls in flight on a server's event loop and the one it is executing;   *)
(* importer is the run of the data importer (src/import_data.py).          *)
(*                                                                         *)
(* Relationship metrics are fixed-point numbers in thousandths (7.5 is     *)
(* 7500); emotional valence is in units of 1/ValOne.                       *)
(***************************************************************************)
EXTENDS Integers, Sequences, FiniteSets, TLC

VARIABLES driver, edges, mock_relationships, mock_interactions,
          now, calls, call, lila_result, simple_result, tasks, running, importer

vars == <<driver, edges, mock_relationships, mock_interactions,
          now, calls, call, lila_result, simple_result, tasks, running, importer>>

----------------------------------------------------------------------------
(* Bounds of the model *)

\* number of tool calls explored
MaxCalls == 3

\* emotional valence 1.0, in units that keep every blend of MaxCalls calls exact
ValOne == 10 * 2 ^ MaxCalls

\* persona ids a caller passes
Ids == {"lila", "don", "alex"}

\* (persona1_id, persona2_id) a caller passes: the seeded pair and a pair
\* without a relationship, each in both orders
CallPairs ==
    { <<"lila", "don">>, <<"don", "lila">>, <<"don", "alex">>, <<"alex", "don">> }

\* (trust_delta, intimacy_delta, strength_delta) a caller passes
DeltaTriples ==
    { <<-10000, 0, 0>>, <<1236, -10000, 10000>>, <<0, 1236, -1236>> }

\* emotional_valence a caller passes
Valences == { -ValOne, ValOne }

----------------------------------------------------------------------------
(* Numbers *)

Max(a, b) == IF a >= b THEN a ELSE b

Min(a, b) == IF a <= b THEN a ELSE b

\* the range of a relationship metric, 0.0 and 10.0
MetricMin == 0

MetricMax == 10000

\* a clamp that forgets the lower bound
SimpleClamp_NoFloor(x) == Min(MetricMax, x)

\* max(0, min(10, x)) of the fallback server
SimpleClamp(x) == Max(MetricMin, Min(MetricMax, x))

\* CASE WHEN x > 10.0 THEN 10.0 WHEN x < 0.0 THEN 0.0 ELSE x END of the query
CypherClamp(x) ==
    IF x > MetricMax THEN MetricMax
    ELSE IF x < MetricMin THEN MetricMin
    ELSE x

\* the format specification :.2f on a non-negative value: the nearest hundredth
Format2f(x) == ((x + 5) \div 10) * 10

\* an optional property of the graph: <<>> is null, <<v>> is the value v
COALESCE(x, d) == IF x = <<>> THEN d ELSE x[1]

\* Python's  x or d  on an optional number: null and zero are both falsy
OrDefault(x, d) == IF x = <<>> \/ x[1] = 0 THEN d ELSE x[1]

----------------------------------------------------------------------------
(* The fallback store: SimpleLilaMCPServer *)

\* self.mock_relationships as built by __init__ at time t
SimpleSeedRelationships(t) ==
    [k \in {<<"lila", "don">>} |->
        [trust_level |-> 7500, intimacy_level |-> 6800,
         relationship_strength |-> 7200, last_updated |-> t]]

\* self.mock_interactions as built by __init__ at time t; id n is "int_00n"
SimpleSeedInteractions(t) ==
    << [id |-> 1, sender_id |-> "lila", recipient_id |-> "don",
        content_length |-> 52, emotional_valence |-> (7 * ValOne) \div 10,
        relationship_impact |-> 3, timestamp |-> t] >>

\* a created relationship that starts from 0.0
SimpleDefaultMetrics_Zero ==
    [trust_level |-> 0, intimacy_level |-> 0, relationship_strength |-> 0]

\* the metrics of a relationship created by update_relationship_metrics
SimpleDefaultMetrics ==
    [trust_level |-> 5000, intimacy_level |-> 5000, relationship_strength |-> 5000]

\* a lookup that forgets the reverse key
Simple_find_key_NoReverse(m, persona1_id, persona2_id) == <<persona1_id, persona2_id>>

\* update_relationship_metrics, "Find existing relationship": the key the
\* update works on
Simple_find_key(m, persona1_id, persona2_id) ==
    IF <<persona1_id, persona2_id>> \in DOMAIN m THEN <<persona1_id, persona2_id>>
    ELSE IF <<persona2_id, persona1_id>> \in DOMAIN m THEN <<persona2_id, persona1_id>>
    ELSE <<persona1_id, persona2_id>>

\* an update that applies trust_delta to intimacy_level
Simple_apply_Crossed(metrics, trust_delta, intimacy_delta, strength_delta, t) ==
    [trust_level |-> SimpleClamp(metrics.trust_level + trust_delta),
     intimacy_level |-> SimpleClamp(metrics.intimacy_level + trust_delta),
     relationship_strength |-> SimpleClamp(metrics.relationship_strength + strength_delta),
     last_updated |-> t]

\* update_relationship_metrics, "Update metrics": the record after the update
Simple_apply(metrics, trust_delta, intimacy_delta, strength_delta, t) ==
    [trust_level |-> SimpleClamp(metrics.trust_level + trust_delta),
     intimacy_level |-> SimpleClamp(metrics.intimacy_level + intimacy_delta),
     relationship_strength |-> SimpleClamp(metrics.relationship_strength + strength_delta),
     last_updated |-> t]

\* update_relationship_metrics: the relationship map after the call
Simple_update_store(m, persona1_id, persona2_id, trust_delta, intimacy_delta, strength_delta, t) ==
    LET key == Simple_find_key(m, persona1_id, persona2_id)
        metrics == IF key \in DOMAIN m THEN m[key] ELSE SimpleDefaultMetrics
    IN  [k \in DOMAIN m \cup {key} |->
            IF k = key
            THEN Simple_apply(metrics, trust_delta, intimacy_delta, strength_delta, t)
            ELSE m[k]]

\* update_relationship_metrics: the returned document, from the map after the call
Simple_update_result(m2, persona1_id, persona2_id) ==
    LET metrics == m2[Simple_find_key(m2, persona1_id, persona2_id)]
    IN  [success |-> TRUE,
         participants |-> <<persona1_id, persona2_id>>,
         trust_level |-> Format2f(metrics.trust_level),
         intimacy_level |-> Format2f(metrics.intimacy_level),
         relationship_strength |-> Format2f(metrics.relationship_strength)]

\* a read that forgets the reverse key
Simple_get_relationship_by_personas_NoReverse(m, persona1_id, persona2_id) ==
    IF <<persona1_id, persona2_id>> \in DOMAIN m
    THEN [persona1_id |-> persona1_id, persona2_id |-> persona2_id,
          trust_level |-> m[<<persona1_id, persona2_id>>].trust_level,
          intimacy_level |-> m[<<persona1_id, persona2_id>>].intimacy_level,
          relationship_strength |-> m[<<persona1_id, persona2_id>>].relationship_strength,
          last_updated |-> m[<<persona1_id, persona2_id>>].last_updated]
    ELSE [error |-> "Relationship not found"]

\* the resource relationships/{persona1_id}/{persona2_id} of the fallback server
Simple_get_relationship_by_personas(m, persona1_id, persona2_id) ==
    IF <<persona1_id, persona2_id>> \in DOMAIN m
    THEN [persona1_id |-> persona1_id, persona2_id |-> persona2_id,
          trust_level |-> m[<<persona1_id, persona2_id>>].trust_level,
          intimacy_level |-> m[<<persona1_id, persona2_id>>].intimacy_level,
          relationship_strength |-> m[<<persona1_id, persona2_id>>].relationship_strength,
          last_updated |-> m[<<persona1_id, persona2_id>>].last_updated]
    ELSE IF <<persona2_id, persona1_id>> \in DOMAIN m
    THEN [persona1_id |-> persona1_id, persona2_id |-> persona2_id,
          trust_level |-> m[<<persona2_id, persona1_id>>].trust_level,
          intimacy_level |-> m[<<persona2_id, persona1_id>>].intimacy_level,
          relationship_strength |-> m[<<persona2_id, persona1_id>>].relationship_strength,
          last_updated |-> m[<<persona2_id, persona1_id>>].last_updated]
    ELSE [error |-> "Relationship not found"]

\* a list that takes the new interaction at its end
Simple_record_store_Append(l, sender_id, recipient_id, content_length, emotional_valence, relationship_impact, t) ==
    l \o << [id |-> Len(l) + 1, sender_id |-> sender_id, recipient_id |-> recipient_id,
             content_length |-> content_length, emotional_valence |-> emotional_valence,
             relationship_impact |-> relationship_impact, timestamp |-> t] >>

\* record_interaction of the fallback server: the interaction list after the call
Simple_record_store(l, sender_id, recipient_id, content_length, emotional_valence, relationship_impact, t) ==
    << [id |-> Len(l) + 1, sender_id |-> sender_id, recipient_id |-> recipient_id,
        content_length |-> content_length, emotional_valence |-> emotional_valence,
        relationship_impact |-> relationship_impact, timestamp |-> t] >> \o l

\* record_interaction of the fallback server: the returned document
Simple_record_result(l, sender_id, recipient_id, content_length, emotional_valence, relationship_impact) ==
    [success |-> TRUE, interaction_id |-> Len(l) + 1,
     sender_id |-> sender_id, recipient_id |-> recipient_id,
     content_length |-> content_length, emotional_valence |-> emotional_valence,
     relationship_impact |-> relationship_impact]

----------------------------------------------------------------------------
(* The graph store: LilaMCPServer *)

\* the RELATIONSHIP edges of the graph the server starts on: the relationship
\* the fallback server is seeded with, its counters unset or zero
GraphSeedEdges(unset) ==
    [k \in {<<"lila", "don">>} |->
        [trust_level |-> 7500, intimacy_level |-> 6800, relationship_strength |-> 7200,
         interaction_count |-> IF unset THEN <<>> ELSE <<0>>,
         emotional_valence |-> IF unset THEN <<>> ELSE <<0>>,
         last_interaction |-> <<>>, updated_at |-> 0]]

\* a directed match, (p1)-[r]->(p2)
Match_Directed(g, a, b) == {k \in DOMAIN g : k = <<a, b>>}

\* MATCH (p1 {persona_id: $a})-[r:RELATIONSHIP]-(p2 {persona_id: $b}): the
\* edges between the two personas, in either direction
Match(g, a, b) == {k \in DOMAIN g : k = <<a, b>> \/ k = <<b, a>>}

\* the SET clause of update_relationship_metrics on one matched edge
Lila_update_set(r, trust_delta, intimacy_delta, strength_delta, t) ==
    [r EXCEPT !.trust_level = CypherClamp(r.trust_level + trust_delta),
              !.intimacy_level = CypherClamp(r.intimacy_level + intimacy_delta),
              !.relationship_strength = CypherClamp(r.relationship_strength + strength_delta),
              !.updated_at = t]

\* a query that creates the missing edge with default metrics, as a MERGE would
Lila_update_store_Creating(g, persona1_id, persona2_id, trust_delta, intimacy_delta, strength_delta, t) ==
    LET base ==
          [trust_level |-> 5000, intimacy_level |-> 5000, relationship_strength |-> 5000,
           interaction_count |-> <<>>, emotional_valence |-> <<>>,
           last_interaction |-> <<>>, updated_at |-> t]
        new == IF \E k \in DOMAIN g : k = <<persona1_id, persona2_id>> \/ k = <<persona2_id, persona1_id>>
               THEN {} ELSE {<<persona1_id, persona2_id>>}
    IN  [k \in DOMAIN g \cup new |->
            IF k \in new
            THEN Lila_update_set(base, trust_delta, intimacy_delta, strength_delta, t)
            ELSE IF k = <<persona1_id, persona2_id>> \/ k = <<persona2_id, persona1_id>>
            THEN Lila_update_set(g[k], trust_delta, intimacy_delta, strength_delta, t)
            ELSE g[k]]

\* the query of update_relationship_metrics: the edges after it ran
Lila_update_store(g, persona1_id, persona2_id, trust_delta, intimacy_delta, strength_delta, t) ==
    [k \in DOMAIN g |->
        IF k \in Match(g, persona1_id, persona2_id)
        THEN Lila_update_set(g[k], trust_delta, intimacy_delta, strength_delta, t)
        ELSE g[k]]

\* update_relationship_metrics: the returned document, from the edges after
\* the query (result.single() is the first row, None without a row)
Lila_update_result(g2, persona1_id, persona2_id) ==
    IF Match(g2, persona1_id, persona2_id) = {}
    THEN [error |-> "No relationship found"]
    ELSE LET record == g2[CHOOSE k \in Match(g2, persona1_id, persona2_id) : TRUE]
         IN  [success |-> TRUE,
              participants |-> <<persona1_id, persona2_id>>,
              trust_level |-> Format2f(record.trust_level),
              intimacy_level |-> Format2f(record.intimacy_level),
              relationship_strength |-> Format2f(record.relationship_strength)]

\* a SET clause that keeps the mean of all recorded valences
Lila_record_set_Mean(r, emotional_valence, t) ==
    [r EXCEPT !.last_interaction = <<t>>,
              !.interaction_count = <<COALESCE(r.interaction_count, 0) + 1>>,
              !.emotional_valence =
                  <<(emotional_valence
                       + COALESCE(r.emotional_valence, 0) * COALESCE(r.interaction_count, 0))
                    \div (COALESCE(r.interaction_count, 0) + 1)>>]

\* the SET clause of record_interaction on one matched edge
Lila_record_set(r, emotional_valence, t) ==
    [r EXCEPT !.last_interaction = <<t>>,
              !.interaction_count = <<COALESCE(r.interaction_count, 0) + 1>>,
              !.emotional_valence =
                  <<(emotional_valence + COALESCE(r.emotional_valence, 0)) \div 2>>]

\* a query that adds the passed valence to the stored one and does not halve
Lila_record_store_Sum(g, sender_id, recipient_id, emotional_valence, t) ==
    [k \in DOMAIN g |->
        IF k \in Match(g, sender_id, recipient_id)
        THEN [Lila_record_set(g[k], emotional_valence, t) EXCEPT
                 !.emotional_valence =
                     <<emotional_valence + COALESCE(g[k].emotional_valence, 0)>>]
        ELSE g[k]]

\* the query of record_interaction: the edges after it ran
Lila_record_store(g, sender_id, recipient_id, emotional_valence, t) ==
    [k \in DOMAIN g |->
        IF k \in Match(g, sender_id, recipient_id)
        THEN Lila_record_set(g[k], emotional_valence, t)
        ELSE g[k]]

\* record_interaction: the returned document; the query's result is not read
Lila_record_result(sender_id, recipient_id, content_length, emotional_valence, relationship_impact, t) ==
    [success |-> TRUE, interaction_id |-> <<sender_id, recipient_id, t>>,
     sender_id |-> sender_id, recipient_id |-> recipient_id,
     content_length |-> content_length, emotional_valence |-> emotional_valence,
     relationship_impact |-> relationship_impact]

\* the resource relationships/{persona1_id}/{persona2_id} of the graph server,
\* with a connected driver and a query that does not fail
Lila_get_relationship_by_personas(g, persona1_id, persona2_id) ==
    IF Match(g, persona1_id, persona2_id) = {}
    THEN [error |-> "No relationship found"]
    ELSE LET record == g[CHOOSE k \in Match(g, persona1_id, persona2_id) : TRUE]
         IN  [persona1_id |-> persona1_id, persona2_id |-> persona2_id,
              trust_level |-> OrDefault(<<record.trust_level>>, 5000),
              intimacy_level |-> OrDefault(<<record.intimacy_level>>, 5000),
              relationship_strength |-> OrDefault(<<record.relationship_strength>>, 5000),
              interaction_count |-> OrDefault(record.interaction_count, 0),
              emotional_valence |-> OrDefault(record.emotional_valence, 0),
              updated_at |-> record.updated_at]

\* the document every resource and tool returns without a driver
NotAvailable == [error |-> "Neo4j database not available"]

----------------------------------------------------------------------------
(* The state machine *)

\* content lengths and relationship impacts (in tenths) a caller passes
ContentLengths == {5}

Impacts == {0}

NoCall ==
    [op |-> "none", persona1_id |-> "", persona2_id |-> "", deltas |-> <<0, 0, 0>>,
     emotional_valence |-> 0, store_fails |-> FALSE]

NoResult == [none |-> TRUE]

\* the tool calls in flight on the event loop: none, when every call is
\* answered before the next one is issued
NoTasks == <<>>

\* the data importer of import_data.py: not run while the servers serve
NoImporter == [pc |-> "none"]

\* __init__ of both servers; _setup_database leaves the driver connected
\* (TRUE) or None (FALSE)
Init ==
    /\ driver \in BOOLEAN
    /\ \E unset \in BOOLEAN : edges = GraphSeedEdges(unset)
    /\ mock_relationships = SimpleSeedRelationships(0)
    /\ mock_interactions = SimpleSeedInteractions(0)
    /\ now = 0
    /\ calls = 0
    /\ call = NoCall
    /\ lila_result = NoResult
    /\ simple_result = NoResult
    /\ tasks = NoTasks
    /\ running = 0
    /\ importer = NoImporter

\* whether the session or the query of a call raises; without a driver no
\* session is opened
StoreFailures == IF driver THEN BOOLEAN ELSE {FALSE}

\* update_relationship_metrics of the graph server at time t; store_fails:
\* the session or the query raises
Lila_update_relationship_metrics(persona1_id, persona2_id, d, store_fails, t) ==
    IF ~driver
    THEN /\ lila_result' = NotAvailable
         /\ UNCHANGED edges
    ELSE IF store_fails
    THEN /\ lila_result' = [error |-> "Error updating relationship metrics"]
         /\ UNCHANGED edges
    ELSE /\ edges' = Lila_update_store(edges, persona1_id, persona2_id, d[1], d[2], d[3], t)
         /\ lila_result' = Lila_update_result(edges', persona1_id, persona2_id)

\* update_relationship_metrics of the fallback server at time t
Simple_update_relationship_metrics(persona1_id, persona2_id, d, t) ==
    /\ mock_relationships' =
          Simple_update_store(mock_relationships, persona1_id, persona2_id, d[1], d[2], d[3], t)
    /\ simple_result' = Simple_update_result(mock_relationships', persona1_id, persona2_id)
    /\ UNCHANGED mock_interactions

\* record_interaction of the graph server at time t
Lila_record_interaction(sender_id, recipient_id, content_length, emotional_valence, relationship_impact, store_fails, t) ==
    IF ~driver
    THEN /\ lila_result' = NotAvailable
         /\ UNCHANGED edges
    ELSE IF store_fails
    THEN /\ lila_result' = [error |-> "Error recording interaction"]
         /\ UNCHANGED edges
    ELSE /\ edges' = Lila_record_store(edges, sender_id, recipient_id, emotional_valence, t)
         /\ lila_result' = Lila_record_result(sender_id, recipient_id, content_length,
                                              emotional_valence, relationship_impact, t)

\* record_interaction of the fallback server at time t
Simple_record_interaction(sender_id, recipient_id, content_length, emotional_valence, relationship_impact, t) ==
    /\ mock_interactions' =
          Simple_record_store(mock_interactions, sender_id, recipient_id, content_length,
                              emotional_valence, relationship_impact, t)
    /\ simple_result' =
          Simple_record_result(mock_interactions, sender_id, recipient_id, content_length,
                               emotional_valence, relationship_impact)
    /\ UNCHANGED mock_relationships

\* the tool call update_relationship_metrics, issued to both servers
UpdateRelationshipMetrics ==
    /\ calls < MaxCalls
    /\ \E p \in CallPairs, d \in DeltaTriples, store_fails \in StoreFailures :
          /\ now' = now + 1
          /\ calls' = calls + 1
          /\ call' = [op |-> "update", persona1_id |-> p[1], persona2_id |-> p[2],
                      deltas |-> d, emotional_valence |-> 0, store_fails |-> store_fails]
          /\ Lila_update_relationship_metrics(p[1], p[2], d, store_fails, now')
          /\ Simple_update_relationship_metrics(p[1], p[2], d, now')
    /\ UNCHANGED <<driver, tasks, running, importer>>

\* the tool call record_interaction, issued to both servers
RecordInteraction ==
    /\ calls < MaxCalls
    /\ \E p \in CallPairs, v \in Valences, n \in ContentLengths, i \in Impacts,
          store_fails \in StoreFailures :
          /\ now' = now + 1
          /\ calls' = calls + 1
          /\ call' = [op |-> "record", persona1_id |-> p[1], persona2_id |-> p[2],
                      deltas |-> <<0, 0, 0>>, emotional_valence |-> v,
                      store_fails |-> store_fails]
          /\ Lila_record_interaction(p[1], p[2], n, v, i, store_fails, now')
          /\ Simple_record_interaction(p[1], p[2], n, v, i, now')
    /\ UNCHANGED <<driver, tasks, running, importer>>

Next == UpdateRelationshipMetrics \/ RecordInteraction

Spec == Init /\ [][Next]_vars

----------------------------------------------------------------------------
(* What the properties are stated in *)

\* clamp(x, 0.0, 10.0) as the specification writes it
Clamp0to10(x) == IF x < 0 THEN 0 ELSE IF x > 10000 THEN 10000 ELSE x

\* y is x rounded to two decimal places
RoundedTo2(x, y) == y % 10 = 0 /\ 2 * x - 2 * y <= 10 /\ 2 * y - 2 * x <= 10

InRange(x) == 0 <= x /\ x <= 10000

\* the graph server served the last call: a driver, and no store failure
Served(c) == driver /\ ~c.store_fails

\* the two personas have a relationship in the graph / in the fallback map
HasEdge(g, a, b) == \E k \in DOMAIN g : k = <<a, b>> \/ k = <<b, a>>

HasRecord(m, a, b) == <<a, b>> \in DOMAIN m \/ <<b, a>> \in DOMAIN m

\* the key of the pair's record in the fallback map, when it has one
RecordKey(m, a, b) == IF <<a, b>> \in DOMAIN m THEN <<a, b>> ELSE <<b, a>>

MetricNames == {"trust_level", "intimacy_level", "relationship_strength"}

DeltaOf(d, f) ==
    IF f = "trust_level" THEN d[1] ELSE IF f = "intimacy_level" THEN d[2] ELSE d[3]

----------------------------------------------------------------------------
(* C1 *)

\* C1: after any sequence of update_relationship_metrics calls, every stored
\* relationship's trust_level, intimacy_level and relationship_strength is
\* within [0.0, 10.0], in the fallback store and in the graph store.
C1_MetricsWithinRange ==
    /\ \A k \in DOMAIN mock_relationships : \A f \in MetricNames :
          InRange(mock_relationships[k][f])
    /\ \A k \in DOMAIN edges : \A f \in MetricNames : InRange(edges[k][f])

\* both stores clamped a metric at 0.0 and another at 10.0
C1_Witness ==
    /\ call.op = "update" /\ call.deltas = <<1236, -10000, 10000>> /\ Served(call)
    /\ HasEdge(edges, call.persona1_id, call.persona2_id)
    /\ \A k \in DOMAIN edges :
          (k = <<call.persona1_id, call.persona2_id>> \/ k = <<call.persona2_id, call.persona1_id>>)
          => edges[k].intimacy_level = 0 /\ edges[k].relationship_strength = 10000
    /\ LET k == RecordKey(mock_relationships, call.persona1_id, call.persona2_id)
       IN  /\ mock_relationships[k].intimacy_level = 0
           /\ mock_relationships[k].relationship_strength = 10000

----------------------------------------------------------------------------
(* C2 *)

\* an update of a pair with a record stores clamp(previous + own delta) in
\* the fallback map
C2_SimpleStored ==
    (call'.op = "update" /\ HasRecord(mock_relationships, call'.persona1_id, call'.persona2_id))
    => LET k == RecordKey(mock_relationships, call'.persona1_id, call'.persona2_id)
       IN  /\ DOMAIN mock_relationships' = DOMAIN mock_relationships
           /\ \A f \in MetricNames :
                 mock_relationships'[k][f] =
                    Clamp0to10(mock_relationships[k][f] + DeltaOf(call'.deltas, f))
           /\ (k = <<"lila", "don">> /\ mock_relationships[k].trust_level = 7500
                 /\ call'.deltas[1] = -10000)
              => mock_relationships'[k].trust_level = 0

\* an update of a pair with an edge stores clamp(previous + own delta) in the
\* graph
C2_LilaStored ==
    (call'.op = "update" /\ Served(call')
       /\ HasEdge(edges, call'.persona1_id, call'.persona2_id))
    => \A k \in DOMAIN edges :
          (k = <<call'.persona1_id, call'.persona2_id>>
             \/ k = <<call'.persona2_id, call'.persona1_id>>)
          => /\ k \in DOMAIN edges'
             /\ \A f \in MetricNames :
                   edges'[k][f] = Clamp0to10(edges[k][f] + DeltaOf(call'.deltas, f))

\* the document of the update reports exactly the stored values
C2_ReturnedExact ==
    /\ (call'.op = "update" /\ HasRecord(mock_relationships, call'.persona1_id, call'.persona2_id))
       => LET k == RecordKey(mock_relationships, call'.persona1_id, call'.persona2_id)
          IN  \A f \in MetricNames : simple_result'[f] = mock_relationships'[k][f]
    /\ (call'.op = "update" /\ Served(call')
          /\ HasEdge(edges, call'.persona1_id, call'.persona2_id))
       => \A k \in DOMAIN edges :
             (k = <<call'.persona1_id, call'.persona2_id>>
                \/ k = <<call'.persona2_id, call'.persona1_id>>)
             => \A f \in MetricNames : lila_result'[f] = edges'[k][f]

\* the document of the update reports the stored values to two decimal places
C2_ReturnedRounded ==
    /\ (call'.op = "update" /\ HasRecord(mock_relationships, call'.persona1_id, call'.persona2_id))
       => LET k == RecordKey(mock_relationships, call'.persona1_id, call'.persona2_id)
          IN  /\ "success" \in DOMAIN simple_result'
              /\ \A f \in MetricNames :
                    RoundedTo2(mock_relationships'[k][f], simple_result'[f])
    /\ (call'.op = "update" /\ Served(call')
          /\ HasEdge(edges, call'.persona1_id, call'.persona2_id))
       => \A k \in DOMAIN edges :
             (k = <<call'.persona1_id, call'.persona2_id>>
                \/ k = <<call'.persona2_id, call'.persona1_id>>)
             => /\ "success" \in DOMAIN lila_result'
                /\ \A f \in MetricNames : RoundedTo2(edges'[k][f], lila_result'[f])

\* C2 as stated: for a pair that already has a relationship,
\* update_relationship_metrics sets each metric to exactly
\* clamp(previous + its own delta, 0, 10) and returns those values; trust 7.5
\* with trust_delta -10 gives 0.0.
C2_UpdateExactAndReturned ==
    [][C2_SimpleStored /\ C2_LilaStored /\ C2_ReturnedExact]_vars

\* C2 as amended: for a pair that already has a relationship,
\* update_relationship_metrics sets each metric to exactly
\* clamp(previous + its own delta, 0, 10) and returns those values rounded
\* to two decimal places; trust 7.5 with trust_delta -10 gives 0.0.
C2_UpdateExactReturnedRounded ==
    [][C2_SimpleStored /\ C2_LilaStored /\ C2_ReturnedRounded]_vars

\* trust 7.5 was clamped to 0.0 by trust_delta -10, and the next update by
\* 1.236 stored 1.236 and reported 1.24, in both servers
C2_Witness ==
    /\ calls = 2 /\ call.op = "update" /\ call.deltas[1] = 1236 /\ Served(call)
    /\ {call.persona1_id, call.persona2_id} = {"lila", "don"}
    /\ mock_relationships[<<"lila", "don">>].trust_level = 1236
    /\ simple_result.trust_level = 1240
    /\ edges[<<"lila", "don">>].trust_level = 1236
    /\ lila_result.trust_level = 1240

----------------------------------------------------------------------------
(* C3 *)

\* the stored valence of an edge, 0.0 when unset
ValenceOf(r) == IF r.emotional_valence = <<>> THEN 0 ELSE r.emotional_valence[1]

\* C3: record_interaction with emotional valence v on an existing
\* relationship of the graph sets its emotional_valence to exactly
\* (v + previous) / 2, previous being the stored valence or 0.0 if unset;
\* from 0.0, recording 1.0 yields 0.5 and recording 1.0 again yields 0.75.
C3_ValenceTwoTermAverage ==
    [][ (call'.op = "record" /\ Served(call'))
        => \A k \in DOMAIN edges :
              (k = <<call'.persona1_id, call'.persona2_id>>
                 \/ k = <<call'.persona2_id, call'.persona1_id>>)
              => /\ edges'[k].emotional_valence # <<>>
                 /\ 2 * edges'[k].emotional_valence[1] =
                       call'.emotional_valence + ValenceOf(edges[k])
                 /\ (ValenceOf(edges[k]) = 0 /\ call'.emotional_valence = ValOne)
                    => 2 * edges'[k].emotional_valence[1] = ValOne
                 /\ (2 * ValenceOf(edges[k]) = ValOne /\ call'.emotional_valence = ValOne)
                    => 4 * edges'[k].emotional_valence[1] = 3 * ValOne ]_vars

\* two recordings of valence 1.0 on the seeded relationship left 0.75
C3_Witness ==
    /\ calls = 2 /\ call.op = "record" /\ call.emotional_valence = ValOne /\ Served(call)
    /\ edges[<<"lila", "don">>].interaction_count = <<2>>
    /\ 4 * ValenceOf(edges[<<"lila", "don">>]) = 3 * ValOne

----------------------------------------------------------------------------
(* C4 *)

\* the stored interaction count of an edge, 0 when unset
CountOf(r) == IF r.interaction_count = <<>> THEN 0 ELSE r.interaction_count[1]

\* C4: each record_interaction call between two personas that have a
\* relationship increases its interaction_count by exactly 1 (unset counting
\* as 0) and sets last_interaction, whichever of the two is the sender; the
\* count never decreases.
C4_CountIncrementsByOne ==
    [][ /\ (call'.op = "record" /\ Served(call'))
           => \A k \in DOMAIN edges :
                 (k = <<call'.persona1_id, call'.persona2_id>>
                    \/ k = <<call'.persona2_id, call'.persona1_id>>)
                 => /\ edges'[k].interaction_count = <<CountOf(edges[k]) + 1>>
                    /\ edges'[k].last_interaction = <<now'>>
        /\ \A k \in DOMAIN edges :
              k \in DOMAIN edges' /\ CountOf(edges'[k]) >= CountOf(edges[k]) ]_vars

\* the recipient of the seeded edge was the sender of a counted interaction,
\* after one the other way round
C4_Witness ==
    /\ calls = 2 /\ call.op = "record" /\ Served(call)
    /\ call.persona1_id = "don" /\ call.persona2_id = "lila"
    /\ edges[<<"lila", "don">>].interaction_count = <<2>>
    /\ edges[<<"lila", "don">>].last_interaction = <<now>>
    /\ mock_interactions[2].sender_id = "lila"

----------------------------------------------------------------------------
(* C5 *)

\* what the relationship-by-pair resource of the graph server reports
ObservedLila(g, a, b) ==
    LET doc == Lila_get_relationship_by_personas(g, a, b)
    IN  [trust_level |-> doc.trust_level, intimacy_level |-> doc.intimacy_level,
         relationship_strength |-> doc.relationship_strength,
         interaction_count |-> doc.interaction_count,
         emotional_valence |-> doc.emotional_valence]

\* what the relationship-by-pair resource of the fallback server reports; it
\* has no interaction_count and no emotional_valence, taken as unset (0, 0.0)
ObservedSimple(m, a, b) ==
    LET doc == Simple_get_relationship_by_personas(m, a, b)
    IN  [trust_level |-> doc.trust_level, intimacy_level |-> doc.intimacy_level,
         relationship_strength |-> doc.relationship_strength,
         interaction_count |-> 0,
         emotional_valence |-> 0]

\* the two documents of a call report the same outcome
SameOutcome(l, s) ==
    /\ ("success" \in DOMAIN l) = ("success" \in DOMAIN s)
    /\ ("error" \in DOMAIN l) = ("error" \in DOMAIN s)
    /\ \A f \in MetricNames : (f \in DOMAIN l /\ f \in DOMAIN s) => l[f] = s[f]

\* C5: from the same relationships, a call of update_relationship_metrics
\* or record_interaction on a pair that has a relationship leaves the graph
\* server and the fallback server with the same observable relationship
\* state, and returns the same outcome in both.
C5_SameObservableState ==
    [][ (/\ Served(call')
         /\ HasEdge(edges, call'.persona1_id, call'.persona2_id)
         /\ HasRecord(mock_relationships, call'.persona1_id, call'.persona2_id)
         /\ ObservedLila(edges, call'.persona1_id, call'.persona2_id)
              = ObservedSimple(mock_relationships, call'.persona1_id, call'.persona2_id))
        => /\ ObservedLila(edges', call'.persona1_id, call'.persona2_id)
                = ObservedSimple(mock_relationships', call'.persona1_id, call'.persona2_id)
           /\ SameOutcome(lila_result', simple_result') ]_vars

----------------------------------------------------------------------------
(* C6 *)

\* C6: in the graph server, update_relationship_metrics for a pair of
\* personas with no relationship between them fails with a 'No relationship
\* found' error document (no success flag), creates no relationship and
\* changes no stored metric.
C6_UpdateWithoutRelationshipFails ==
    [][ (call'.op = "update" /\ Served(call')
           /\ ~HasEdge(edges, call'.persona1_id, call'.persona2_id))
        => /\ lila_result' = [error |-> "No relationship found"]
           /\ "success" \notin DOMAIN lila_result'
           /\ edges' = edges ]_vars

\* the graph server refused the update of a pair the fallback server created
C6_Witness ==
    /\ call.op = "update" /\ Served(call)
    /\ call.persona1_id = "don" /\ call.persona2_id = "alex"
    /\ lila_result = [error |-> "No relationship found"]
    /\ DOMAIN edges = {<<"lila", "don">>}
    /\ <<"don", "alex">> \in DOMAIN mock_relationships

----------------------------------------------------------------------------
(* C7 *)

\* an update of a pair without a record under either key creates one record
\* and stores clamp(5.0 + own delta) in it
C7_Created ==
    (call'.op = "update"
       /\ ~HasRecord(mock_relationships, call'.persona1_id, call'.persona2_id))
    => LET k == <<call'.persona1_id, call'.persona2_id>>
       IN  /\ DOMAIN mock_relationships' = DOMAIN mock_relationships \cup {k}
           /\ Cardinality(DOMAIN mock_relationships') =
                 Cardinality(DOMAIN mock_relationships) + 1
           /\ \A j \in DOMAIN mock_relationships :
                 mock_relationships'[j] = mock_relationships[j]
           /\ \A f \in MetricNames :
                 mock_relationships'[k][f] = Clamp0to10(5000 + DeltaOf(call'.deltas, f))
           /\ "success" \in DOMAIN simple_result' /\ simple_result'.success

\* C7 as stated: in the fallback store, update_relationship_metrics for a
\* pair with no record under either key ordering creates exactly one record
\* with all three metrics 5.0 and applies the deltas to it; the reported and
\* the stored value of each metric is clamp(5.0 + its delta, 0, 10) and the
\* call reports success.
C7_CreatesDefaultReportedExact ==
    [][ /\ C7_Created
        /\ (call'.op = "update"
              /\ ~HasRecord(mock_relationships, call'.persona1_id, call'.persona2_id))
           => \A f \in MetricNames :
                 simple_result'[f] = Clamp0to10(5000 + DeltaOf(call'.deltas, f)) ]_vars

\* C7 as amended: in the fallback store, update_relationship_metrics for a
\* pair with no record under either key ordering creates exactly one record
\* with all three metrics 5.0 and applies the deltas to it; the stored value
\* of each metric is clamp(5.0 + its delta, 0, 10), the reported value is
\* that value rounded to two decimal places, and the call reports success.
C7_CreatesDefaultReportedRounded ==
    [][ /\ C7_Created
        /\ (call'.op = "update"
              /\ ~HasRecord(mock_relationships, call'.persona1_id, call'.persona2_id))
           => \A f \in MetricNames :
                 RoundedTo2(Clamp0to10(5000 + DeltaOf(call'.deltas, f)),
                            simple_result'[f]) ]_vars

\* the first update of alex with don created the record from 5.0
C7_Witness ==
    /\ calls = 1 /\ call.op = "update" /\ call.deltas = <<0, 1236, -1236>>
    /\ call.persona1_id = "alex" /\ call.persona2_id = "don"
    /\ DOMAIN mock_relationships = {<<"lila", "don">>, <<"alex", "don">>}
    /\ mock_relationships[<<"alex", "don">>].trust_level = 5000
    /\ mock_relationships[<<"alex", "don">>].intimacy_level = 6236
    /\ mock_relationships[<<"alex", "don">>].relationship_strength = 3764
    /\ simple_result.intimacy_level = 6240 /\ simple_result.relationship_strength = 3760

----------------------------------------------------------------------------
(* C8 *)

\* C8: in the graph server, record_interaction for a sender and recipient
\* with no relationship between them fails with an error document rather
\* than reporting success.
C8_RecordWithoutRelationshipFails ==
    (call.op = "record" /\ Served(call)
       /\ ~HasEdge(edges, call.persona1_id, call.persona2_id))
    => "error" \in DOMAIN lila_result /\ "success" \notin DOMAIN lila_result

----------------------------------------------------------------------------
(* C9 *)

\* C9: in every reachable state of the fallback store there is one
\* relationship record per unordered pair: for no two distinct persona ids
\* a and b do both keys (a,b) and (b,a) exist in the relationship map.
C9_OneRecordPerUnorderedPair ==
    \A a \in Ids, b \in Ids :
        a # b => ~(<<a, b>> \in DOMAIN mock_relationships
                     /\ <<b, a>> \in DOMAIN mock_relationships)

\* a pair created as (don, alex) was then updated as (alex, don)
C9_Witness ==
    /\ calls >= 2 /\ call.op = "update"
    /\ call.persona1_id = "alex" /\ call.persona2_id = "don"
    /\ <<"don", "alex">> \in DOMAIN mock_relationships
    /\ mock_relationships[<<"don", "alex">>].last_updated = now

----------------------------------------------------------------------------
(* C10 *)

\* the metrics a relationship document reports
MetricsOf(doc) == [f \in MetricNames |-> doc[f]]

\* C10: in the fallback store, once a relationship is registered under
\* (a,b), reading it as (b,a) returns the same metrics as reading it as
\* (a,b), and update_relationship_metrics(b, a, deltas) mutates the same
\* record, with the same resulting metrics, as
\* update_relationship_metrics(a, b, deltas).
C10_OrderIndependent ==
    \A k \in DOMAIN mock_relationships :
        LET a == k[1]
            b == k[2]
        IN  /\ "error" \notin DOMAIN Simple_get_relationship_by_personas(mock_relationships, b, a)
            /\ MetricsOf(Simple_get_relationship_by_personas(mock_relationships, b, a))
                  = MetricsOf(Simple_get_relationship_by_personas(mock_relationships, a, b))
            /\ MetricsOf(Simple_get_relationship_by_personas(mock_relationships, b, a))
                  = MetricsOf(mock_relationships[k])
            /\ \A d \in DeltaTriples :
                  LET ab == Simple_update_store(mock_relationships, a, b, d[1], d[2], d[3], now + 1)
                      ba == Simple_update_store(mock_relationships, b, a, d[1], d[2], d[3], now + 1)
                  IN  /\ ba = ab
                      /\ MetricsOf(Simple_update_result(ba, b, a))
                            = MetricsOf(Simple_update_result(ab, a, b))

\* a relationship registered as (alex, don) was last updated as (don, alex)
\* and reads the same both ways
C10_Witness ==
    /\ call.op = "update" /\ call.persona1_id = "don" /\ call.persona2_id = "alex"
    /\ <<"alex", "don">> \in DOMAIN mock_relationships
    /\ <<"don", "alex">> \notin DOMAIN mock_relationships
    /\ simple_result.trust_level =
          Format2f(Simple_get_relationship_by_personas(mock_relationships, "don", "alex").trust_level)

----------------------------------------------------------------------------
(* Text: a Python str as the sequence of its characters *)

UpperCaseLetters == <<"A", "B", "C", "D", "E", "F", "G", "H", "I", "J", "K", "L", "M", "N", "O", "P", "Q", "R", "S", "T", "U", "V", "W", "X", "Y", "Z">>

LowerCaseLetters == <<"a", "b", "c", "d", "e", "f", "g", "h", "i", "j", "k", "l", "m", "n", "o", "p", "q", "r", "s", "t", "u", "v", "w", "x", "y", "z">>

\* str.lower() on one character
LowerChar(c) ==
    IF \E i \in DOMAIN UpperCaseLetters : UpperCaseLetters[i] = c
    THEN LowerCaseLetters[CHOOSE i \in DOMAIN UpperCaseLetters : UpperCaseLetters[i] = c]
    ELSE c

\* str.lower()
Lower(s) == [i \in DOMAIN s |-> LowerChar(s[i])]

\* sub in s: s has sub as a contiguous run of characters
Contains(sub, s) ==
    \E i \in 0..(Len(s) - Len(sub)) : SubSeq(s, i + 1, i + Len(sub)) = sub

\* the literals the strategy selection looks for
Str_first == <<"f", "i", "r", "s", "t">>
Str_new == <<"n", "e", "w">>
Str_deep == <<"d", "e", "e", "p">>
Str_intimate == <<"i", "n", "t", "i", "m", "a", "t", "e">>
Str_trust == <<"t", "r", "u", "s", "t">>
Str_vulnerability == <<"v", "u", "l", "n", "e", "r", "a", "b", "i", "l", "i", "t", "y">>

\* conversation contexts a caller passes
Contexts ==
    { <<>>,
      <<"T", "h", "i", "s", " ", "i", "s", " ", "o", "u", "r", " ", "f", "i", "r", "s", "t", " ", "m", "e", "e", "t", "i", "n", "g">>,
      <<"L", "e", "t", "'", "s", " ", "g", "o", " ", "d", "e", "e", "p", "e", "r">>,
      <<"A", " ", "N", "E", "W", " ", "c", "h", "a", "p", "t", "e", "r">>,
      <<"I", "n", "t", "i", "m", "a", "t", "e", " ", "t", "a", "l", "k">>,
      <<"f", "i", "r", "s", "t", " ", "d", "e", "e", "p", " ", "t", "a", "l", "k">> }

\* active goals a caller passes
GoalTexts ==
    { <<>>,
      <<"b", "u", "i", "l", "d", " ", "t", "r", "u", "s", "t">>,
      <<"T", "r", "u", "s", "t", ",", " ", "v", "u", "l", "n", "e", "r", "a", "b", "i", "l", "i", "t", "y">>,
      <<"V", "U", "L", "N", "E", "R", "A", "B", "I", "L", "I", "T", "Y">> }

----------------------------------------------------------------------------
(* The analysis tools *)

\* the attachment styles a persona node stores; "None" is the value of a
\* persona whose attachment_style property is not set
StoredStyles == {"secure", "anxious", "avoidant", "exploratory", "disorganized", "None"}

\* the attachment_style argument a caller passes
StyleArgs == {"secure", "anxious", "avoidant", "exploratory", "disorganized"}

\* a matrix that takes the anxious and avoidant pairing for a low one
compatibility_matrix_Swapped ==
    (<<"secure", "secure">> :>
        <<"High", "Both partners provide stability and emotional availability">>)
    @@ (<<"secure", "anxious">> :>
        <<"Good", "Secure partner can provide reassurance to anxious partner">>)
    @@ (<<"secure", "avoidant">> :>
        <<"Moderate", "Secure partner may help avoidant partner open up gradually">>)
    @@ (<<"anxious", "anxious">> :>
        <<"Challenging", "Both partners may escalate emotional intensity">>)
    @@ (<<"anxious", "avoidant">> :>
        <<"Low", "Both partners may avoid emotional intimacy">>)
    @@ (<<"avoidant", "avoidant">> :>
        <<"Difficult", "Classic pursue-withdraw dynamic may develop">>)

\* compatibility_matrix of analyze_persona_compatibility
compatibility_matrix ==
    (<<"secure", "secure">> :>
        <<"High", "Both partners provide stability and emotional availability">>)
    @@ (<<"secure", "anxious">> :>
        <<"Good", "Secure partner can provide reassurance to anxious partner">>)
    @@ (<<"secure", "avoidant">> :>
        <<"Moderate", "Secure partner may help avoidant partner open up gradually">>)
    @@ (<<"anxious", "anxious">> :>
        <<"Challenging", "Both partners may escalate emotional intensity">>)
    @@ (<<"anxious", "avoidant">> :>
        <<"Difficult", "Classic pursue-withdraw dynamic may develop">>)
    @@ (<<"avoidant", "avoidant">> :>
        <<"Low", "Both partners may avoid emotional intimacy">>)

\* the persona pairs a caller asks the compatibility of
AnalysisPairs == {<<"lila", "don">>, <<"don", "alex">>}

\* dict.get(key): the value in a one-element tuple, << >> for None
DictGet(d, key) == IF key \in DOMAIN d THEN <<d[key]>> ELSE <<>>

\* a lookup that tries the pair in the order given only
compatibility_NoReverse(style1, style2) ==
    LET direct == DictGet(compatibility_matrix, <<style1, style2>>)
    IN  IF direct # <<>> THEN direct[1]
        ELSE <<"Unknown", "Attachment style combination not recognized">>

\* matrix.get((style1, style2)) or matrix.get((style2, style1)) or the fallback
compatibility(style1, style2) ==
    LET direct == DictGet(compatibility_matrix, <<style1, style2>>)
        reverse == DictGet(compatibility_matrix, <<style2, style1>>)
    IN  IF direct # <<>> THEN direct[1]
        ELSE IF reverse # <<>> THEN reverse[1]
        ELSE <<"Unknown", "Attachment style combination not recognized">>

\* analyze_persona_compatibility of the graph server, with a connected driver
\* and a query that does not fail; found: the query matched both personas
Lila_analyze_persona_compatibility(persona1_id, persona2_id, found, style1, style2) ==
    IF ~found
    THEN [error |-> "Could not find both personas"]
    ELSE [persona1 |-> [id |-> persona1_id, attachment_style |-> style1],
          persona2 |-> [id |-> persona2_id, attachment_style |-> style2],
          compatibility_level |-> compatibility(style1, style2)[1],
          analysis |-> compatibility(style1, style2)[2]]

\* attachment_style of the personas the fallback server is constructed with
mock_personas == ("lila" :> "secure") @@ ("don" :> "anxious")

\* analyze_persona_compatibility of the fallback server: overall_score in
\* thousandths
Simple_analyze_persona_compatibility(persona1_id, persona2_id) ==
    IF persona1_id \notin DOMAIN mock_personas \/ persona2_id \notin DOMAIN mock_personas
    THEN [error |-> "One or both personas not found"]
    ELSE [overall_score |-> Format2f(750)]

\* attachment_strategies of autonomous_strategy_selection
attachment_strategies ==
    ("secure" :> <<"emotional_bonding", "vulnerable_disclosure", "supportive_listening", "trust_building">>)
    @@ ("anxious" :> <<"reassurance_seeking", "emotional_validation", "secure_bonding", "safety_creation">>)
    @@ ("avoidant" :> <<"autonomous_connection", "thoughtful_presence", "respectful_distance", "gradual_opening">>)
    @@ ("exploratory" :> <<"growth_oriented_support", "playful_engagement", "curious_exploration", "authentic_expression">>)

\* a lookup that gives a style it does not know the exploratory strategies
available_strategies_ExploratoryDefault(attachment_style) ==
    IF attachment_style \in DOMAIN attachment_strategies
    THEN attachment_strategies[attachment_style]
    ELSE attachment_strategies["exploratory"]

\* attachment_strategies.get(attachment_style, attachment_strategies["secure"])
available_strategies(attachment_style) ==
    IF attachment_style \in DOMAIN attachment_strategies
    THEN attachment_strategies[attachment_style]
    ELSE attachment_strategies["secure"]

\* a selection that looks at the goals before it looks at the context
selected_strategy_GoalsFirst(attachment_style, conversation_context, active_goals) ==
    LET context_lower == Lower(conversation_context)
    IN  IF Contains(Str_trust, Lower(active_goals))
        THEN "trust_building"
        ELSE IF Contains(Str_vulnerability, Lower(active_goals))
        THEN "vulnerable_disclosure"
        ELSE IF Contains(Str_first, context_lower) \/ Contains(Str_new, context_lower)
        THEN IF attachment_style = "anxious" THEN "reassurance_seeking"
             ELSE IF attachment_style = "avoidant" THEN "thoughtful_presence"
             ELSE "emotional_bonding"
        ELSE IF Contains(Str_deep, context_lower) \/ Contains(Str_intimate, context_lower)
        THEN IF attachment_style # "avoidant" THEN "vulnerable_disclosure" ELSE "gradual_opening"
        ELSE available_strategies(attachment_style)[1]

\* the if / elif chain of autonomous_strategy_selection of the graph server
selected_strategy(attachment_style, conversation_context, active_goals) ==
    LET context_lower == Lower(conversation_context)
    IN  IF Contains(Str_first, context_lower) \/ Contains(Str_new, context_lower)
        THEN IF attachment_style = "anxious" THEN "reassurance_seeking"
             ELSE IF attachment_style = "avoidant" THEN "thoughtful_presence"
             ELSE "emotional_bonding"
        ELSE IF Contains(Str_deep, context_lower) \/ Contains(Str_intimate, context_lower)
        THEN IF attachment_style # "avoidant" THEN "vulnerable_disclosure" ELSE "gradual_opening"
        ELSE IF Contains(Str_trust, Lower(active_goals))
        THEN "trust_building"
        ELSE IF Contains(Str_vulnerability, Lower(active_goals))
        THEN "vulnerable_disclosure"
        ELSE available_strategies(attachment_style)[1]

\* autonomous_strategy_selection of the graph server: it opens no session
Lila_autonomous_strategy_selection(persona_id, conversation_context, active_goals, attachment_style) ==
    [persona_id |-> persona_id,
     selected_strategy |-> selected_strategy(attachment_style, conversation_context, active_goals),
     attachment_style |-> attachment_style,
     context |-> conversation_context,
     available_strategies |-> available_strategies(attachment_style)]

\* autonomous_strategy_selection of the fallback server: confidence in
\* thousandths
Simple_autonomous_strategy_selection(persona_id) ==
    IF persona_id \notin DOMAIN mock_personas
    THEN [error |-> "Persona not found"]
    ELSE IF mock_personas[persona_id] = "secure"
    THEN [selected_strategy |-> "balanced_connection", confidence |-> Format2f(850),
          attachment_basis |-> mock_personas[persona_id]]
    ELSE [selected_strategy |-> "reassurance_seeking", confidence |-> Format2f(780),
          attachment_basis |-> mock_personas[persona_id]]

\* the tool call analyze_persona_compatibility, issued to both servers; the
\* persona nodes of the graph are the query's answer: both found or not, and
\* the attachment styles they store
AnalyzePersonaCompatibility ==
    /\ \E p \in AnalysisPairs, found \in BOOLEAN, style1 \in StoredStyles, style2 \in StoredStyles,
          store_fails \in StoreFailures :
          /\ found \/ (style1 = "None" /\ style2 = "None")
          /\ call' = [op |-> "analyze_persona_compatibility",
                      persona1_id |-> p[1], persona2_id |-> p[2],
                      found |-> found, style1 |-> style1, style2 |-> style2,
                      store_fails |-> store_fails]
          /\ lila_result' =
                IF ~driver THEN NotAvailable
                ELSE IF store_fails THEN [error |-> "Error analyzing compatibility"]
                ELSE Lila_analyze_persona_compatibility(p[1], p[2], found, style1, style2)
          /\ simple_result' = Simple_analyze_persona_compatibility(p[1], p[2])
    /\ UNCHANGED <<driver, edges, mock_relationships, mock_interactions, now, calls, tasks, running, importer>>

\* the tool call autonomous_strategy_selection, issued to both servers
AutonomousStrategySelection ==
    /\ \E persona_id \in Ids, attachment_style \in StyleArgs,
          conversation_context \in Contexts, active_goals \in GoalTexts :
          /\ call' = [op |-> "autonomous_strategy_selection", persona_id |-> persona_id,
                      attachment_style |-> attachment_style,
                      conversation_context |-> conversation_context,
                      active_goals |-> active_goals, store_fails |-> FALSE]
          /\ lila_result' =
                Lila_autonomous_strategy_selection(persona_id, conversation_context,
                                                   active_goals, attachment_style)
          /\ simple_result' = Simple_autonomous_strategy_selection(persona_id)
    /\ UNCHANGED <<driver, edges, mock_relationships, mock_interactions, now, calls, tasks, running, importer>>

NextAnalysis == AnalyzePersonaCompatibility \/ AutonomousStrategySelection

\* the servers answering analysis tool calls
SpecAnalysis == Init /\ [][NextAnalysis]_vars

----------------------------------------------------------------------------
(* C11 *)

\* the last call was analyze_persona_compatibility, the graph server ran its
\* query and the query found both personas
CompatibilityAnswered ==
    /\ call.op = "analyze_persona_compatibility"
    /\ Served(call)
    /\ call.found

\* C11: the compatibility lookup is symmetric: for all attachment styles s1 and
\* s2, recognized or not, the level and the rationale returned for (s1, s2)
\* are those returned for (s2, s1)
C11_CompatibilitySymmetric ==
    CompatibilityAnswered =>
        LET swapped == Lila_analyze_persona_compatibility(call.persona2_id, call.persona1_id,
                                                          TRUE, call.style2, call.style1)
        IN  /\ lila_result.compatibility_level = swapped.compatibility_level
            /\ lila_result.analysis = swapped.analysis

\* C11 witness: a pair the matrix lists in the other order only is answered
\* from the reversed key
C11_Witness ==
    /\ CompatibilityAnswered
    /\ call.style1 = "anxious"
    /\ call.style2 = "secure"
    /\ lila_result.compatibility_level = "Good"

----------------------------------------------------------------------------
(* C12 *)

\* the level the table gives an unordered pair of styles
C12_TableLevel(s1, s2) ==
    LET pair == {s1, s2}
    IN  IF pair = {"secure"} THEN "High"
        ELSE IF pair = {"secure", "anxious"} THEN "Good"
        ELSE IF pair = {"secure", "avoidant"} THEN "Moderate"
        ELSE IF pair = {"anxious"} THEN "Challenging"
        ELSE IF pair = {"anxious", "avoidant"} THEN "Difficult"
        ELSE IF pair = {"avoidant"} THEN "Low"
        ELSE "Unknown"

\* C12: the compatibility of a pair is the table entry of the six unordered
\* pairs the table lists, and for every other pair (one with exploratory, an
\* unknown or a missing style) the fallback "Unknown" with the rationale
\* "Attachment style combination not recognized"
C12_CompatibilityTable ==
    CompatibilityAnswered =>
        /\ lila_result.compatibility_level = C12_TableLevel(call.style1, call.style2)
        /\ (C12_TableLevel(call.style1, call.style2) = "Unknown"
              => lila_result.analysis = "Attachment style combination not recognized")
        /\ (C12_TableLevel(call.style1, call.style2) # "Unknown"
              => lila_result.analysis # "Attachment style combination not recognized")

\* C12 witness: two exploratory personas get the fallback
C12_Witness ==
    /\ CompatibilityAnswered
    /\ call.style1 = "exploratory"
    /\ call.style2 = "exploratory"
    /\ lila_result.compatibility_level = "Unknown"

----------------------------------------------------------------------------
(* C13 *)

Str_FirstMeeting == <<"T", "h", "i", "s", " ", "i", "s", " ", "o", "u", "r", " ", "f", "i", "r", "s", "t", " ", "m", "e", "e", "t", "i", "n", "g">>

Str_GoDeeper == <<"L", "e", "t", "'", "s", " ", "g", "o", " ", "d", "e", "e", "p", "e", "r">>

\* the first rule of the five whose condition the call meets
C13_Rule(conversation_context, active_goals) ==
    IF Contains(Str_first, Lower(conversation_context))
       \/ Contains(Str_new, Lower(conversation_context)) THEN 1
    ELSE IF Contains(Str_deep, Lower(conversation_context))
            \/ Contains(Str_intimate, Lower(conversation_context)) THEN 2
    ELSE IF Contains(Str_trust, Lower(active_goals)) THEN 3
    ELSE IF Contains(Str_vulnerability, Lower(active_goals)) THEN 4
    ELSE 5

\* the strategy each rule names for a style
C13_RuleStrategy(rule, attachment_style) ==
    CASE rule = 1 ->
           IF attachment_style = "anxious" THEN "reassurance_seeking"
           ELSE IF attachment_style = "avoidant" THEN "thoughtful_presence"
           ELSE "emotional_bonding"
      [] rule = 2 ->
           IF attachment_style = "avoidant" THEN "gradual_opening" ELSE "vulnerable_disclosure"
      [] rule = 3 -> "trust_building"
      [] rule = 4 -> "vulnerable_disclosure"
      [] rule = 5 -> available_strategies(attachment_style)[1]

\* C13: the graph server's autonomous_strategy_selection applies its five
\* rules top to bottom, the first match wins, matching substrings whatever
\* their case: an anxious style with 'This is our first meeting' selects
\* reassurance_seeking, an avoidant one with "Let's go deeper" gradual_opening,
\* a secure one with no context and no goals the first secure strategy
C13_StrategyPrecedence ==
    call.op = "autonomous_strategy_selection" =>
        /\ lila_result.selected_strategy =
              C13_RuleStrategy(C13_Rule(call.conversation_context, call.active_goals),
                               call.attachment_style)
        /\ (call.attachment_style = "anxious" /\ call.conversation_context = Str_FirstMeeting
              => lila_result.selected_strategy = "reassurance_seeking")
        /\ (call.attachment_style = "avoidant" /\ call.conversation_context = Str_GoDeeper
              => lila_result.selected_strategy = "gradual_opening")
        /\ (call.attachment_style = "secure" /\ call.conversation_context = <<>>
              /\ call.active_goals = <<>>
              => lila_result.selected_strategy = "emotional_bonding")

\* C13 witness: a context with 'deeper' and goals with 'Trust' meet the second
\* and the third rule, and the second one decides
C13_Witness ==
    /\ call.op = "autonomous_strategy_selection"
    /\ call.attachment_style = "avoidant"
    /\ call.conversation_context = Str_GoDeeper
    /\ Contains(Str_trust, Lower(call.active_goals))
    /\ ~Contains(Str_trust, call.active_goals)
    /\ lila_result.selected_strategy = "gradual_opening"

----------------------------------------------------------------------------
(* The resource interactions/recent/{count} *)

\* the most interactions the graph server returns
RecentCap == 50

\* the interactions the fallback store is filled up to
MaxStored == 52

DecimalDigits == <<"0", "1", "2", "3", "4", "5", "6", "7", "8", "9">>

IsDigit(c) == \E i \in DOMAIN DecimalDigits : DecimalDigits[i] = c

DigitValue(c) == (CHOOSE i \in DOMAIN DecimalDigits : DecimalDigits[i] = c) - 1

RECURSIVE DigitsValue(_)
\* the number a non-empty run of decimal digits writes
DigitsValue(s) ==
    IF Len(s) = 1 THEN DigitValue(s[1])
    ELSE 10 * DigitsValue(SubSeq(s, 1, Len(s) - 1)) + DigitValue(s[Len(s)])

\* int(s) on a str: <<n>> for an optional sign and decimal digits, << >>
\* where int raises ValueError
ParseInt(s) ==
    LET signed == Len(s) > 0 /\ s[1] \in {"-", "+"}
        digits == IF signed THEN Tail(s) ELSE s
    IN  IF Len(digits) = 0 \/ \E i \in DOMAIN digits : ~IsDigit(digits[i])
        THEN <<>>
        ELSE IF signed /\ s[1] = "-" THEN <<0 - DigitsValue(digits)>>
        ELSE <<DigitsValue(digits)>>

\* the counts a reader puts in the resource address
Counts ==
    { <<"0">>,
      <<"1">>,
      <<"2">>,
      <<"1", "0">>,
      <<"5", "0">>,
      <<"5", "1">>,
      <<"6", "0">>,
      <<"-", "1">>,
      <<"a", "b", "c">> }

\* l[:k] of Python: the first k items, all but the last -k for a negative k
SliceTo(l, k) ==
    IF k >= 0 THEN SubSeq(l, 1, Min(k, Len(l)))
    ELSE SubSeq(l, 1, Max(0, Len(l) + k))

\* what a handler that raised left its caller with
Raised(exception) == [raised |-> exception]

\* get_recent_interactions of the fallback server
Simple_get_recent_interactions(l, count) ==
    IF ParseInt(count) = <<>>
    THEN Raised("ValueError")
    ELSE LET limit == Min(ParseInt(count)[1], Len(l))
             recent == SliceTo(l, limit)
         IN  [interactions |-> recent, count |-> Len(recent), total_available |-> Len(l)]

RECURSIVE OrderByUpdatedAtDesc(_, _)
\* ORDER BY r.updated_at DESC over the edges ks of g
OrderByUpdatedAtDesc(g, ks) ==
    IF ks = {} THEN <<>>
    ELSE LET k == CHOOSE x \in ks : \A y \in ks : g[x].updated_at >= g[y].updated_at
         IN  <<k>> \o OrderByUpdatedAtDesc(g, ks \ {k})

RECURSIVE RecentRows(_, _)
\* MATCH (p1)-[r:RELATIONSHIP]-(p2): an edge is matched from either end, so
\* it gives two rows
RecentRows(g, ordered) ==
    IF ordered = <<>> THEN <<>>
    ELSE LET k == Head(ordered)
         IN  << [from |-> k[1], to |-> k[2], r |-> g[k]],
                [from |-> k[2], to |-> k[1], r |-> g[k]] >>
             \o RecentRows(g, Tail(ordered))

\* get_recent_interactions of the graph server at time t, with a connected
\* driver; store_fails: the session or the query raises. int(count) is inside
\* the try, and LIMIT rejects a negative count
Lila_get_recent_interactions(g, count, store_fails, t) ==
    IF ParseInt(count) = <<>> \/ store_fails
    THEN [error |-> "Error retrieving interactions"]
    ELSE LET count_int == Min(ParseInt(count)[1], RecentCap)
         IN  IF count_int < 0
             THEN [error |-> "Error retrieving interactions"]
             ELSE LET rows == RecentRows(g, OrderByUpdatedAtDesc(g, DOMAIN g))
                      result == SubSeq(rows, 1, Min(count_int, Len(rows)))
                      interactions ==
                          [i \in DOMAIN result |->
                              [id |-> i, from |-> result[i].from, to |-> result[i].to,
                               emotional_valence |-> OrDefault(result[i].r.emotional_valence, 0),
                               timestamp |-> COALESCE(result[i].r.last_interaction, t)]]
                  IN  [interactions |-> interactions, count |-> Len(interactions),
                       last_updated |-> t]

\* the resource interactions/recent/{count}, read from both servers
GetRecentInteractions ==
    /\ \E count \in Counts, store_fails \in StoreFailures :
          /\ call' = [op |-> "get_recent_interactions", count |-> count,
                      store_fails |-> store_fails]
          /\ lila_result' =
                IF ~driver THEN NotAvailable
                ELSE Lila_get_recent_interactions(edges, count, store_fails, now)
          /\ simple_result' = Simple_get_recent_interactions(mock_interactions, count)
    /\ UNCHANGED <<driver, edges, mock_relationships, mock_interactions, now, calls, tasks, running, importer>>

\* record_interaction from lila to don, issued to both servers again and
\* again until the fallback store holds MaxStored interactions
RecordInteractionBurst ==
    /\ Len(mock_interactions) < MaxStored
    /\ \E n \in ContentLengths, i \in Impacts :
          /\ now' = now + 1
          /\ calls' = calls + 1
          /\ call' = [op |-> "record", persona1_id |-> "lila", persona2_id |-> "don",
                      deltas |-> <<0, 0, 0>>, emotional_valence |-> 0,
                      store_fails |-> FALSE]
          /\ Lila_record_interaction("lila", "don", n, 0, i, FALSE, now')
          /\ Simple_record_interaction("lila", "don", n, 0, i, now')
    /\ UNCHANGED <<driver, tasks, running, importer>>

NextRecent == RecordInteractionBurst \/ GetRecentInteractions

\* the servers recording interactions and answering reads of the recent ones
SpecRecent == Init /\ [][NextRecent]_vars

----------------------------------------------------------------------------
(* C14 *)

\* the items of a returned document: an error document has none
Items(doc) == IF "interactions" \in DOMAIN doc THEN Len(doc.interactions) ELSE 0

\* the last call read the recent interactions with a count that is a number
\* and not negative
RecentRead ==
    /\ call.op = "get_recent_interactions"
    /\ ParseInt(call.count) # <<>>
    /\ ParseInt(call.count)[1] >= 0

\* C14: for every requested count and every store state, more than 50 stored
\* interactions and counts above 50 included, the recent-interactions resource
\* never returns more than min(count, 50) items, in both servers
C14_AtMostMinCount50 ==
    RecentRead =>
        /\ Items(lila_result) <= Min(ParseInt(call.count)[1], 50)
        /\ Items(simple_result) <= Min(ParseInt(call.count)[1], 50)

----------------------------------------------------------------------------
(* C15 *)

\* the interactions of l in the order they were recorded in, latest first:
\* record_interaction numbers them and stamps them as it records them
MostRecentFirst(l) ==
    \A i, j \in DOMAIN l :
        i < j => l[i].id > l[j].id /\ l[i].timestamp >= l[j].timestamp

\* C15: the fallback server's recent-interactions read enumerates the
\* interactions most recent first: one recorded later comes before one
\* recorded earlier and before the seeded one, and a read limited to n items
\* returns the n most recently recorded ones
C15_MostRecentFirst ==
    /\ MostRecentFirst(mock_interactions)
    /\ mock_interactions[Len(mock_interactions)] = SimpleSeedInteractions(0)[1]
    /\ RecentRead =>
          LET n == Min(ParseInt(call.count)[1], Len(mock_interactions))
          IN  /\ Len(simple_result.interactions) = n
              /\ \A i \in 1..n : simple_result.interactions[i] = mock_interactions[i]

\* C15 witness: with the seeded interaction and two recorded ones in the
\* store, a read of two returns the two recorded ones, the later one first
C15_Witness ==
    /\ RecentRead
    /\ ParseInt(call.count)[1] = 2
    /\ Len(mock_interactions) = 3
    /\ Len(simple_result.interactions) = 2
    /\ simple_result.interactions[1].id = 3
    /\ simple_result.interactions[2].id = 2

----------------------------------------------------------------------------
(* C16 *)

\* C16: every resource and tool invocation, whatever its input (a count that
\* is no number or is negative, a failing store call), returns a result
\* document and never lets an exception out, in both servers
C16_NeverRaises ==
    /\ "raised" \notin DOMAIN lila_result
    /\ "raised" \notin DOMAIN simple_result

----------------------------------------------------------------------------
(* The resources *)

\* the five personality scalars of a persona, in thousandths
Traits == {"openness", "conscientiousness", "extraversion", "agreeableness", "neuroticism"}

\* the PersonaAgent nodes of the graph the servers read: no server writes
\* them. Each scalar is set on one node and not set (<<>>) on another, and
\* one is set to zero
PersonaNodes ==
    ("lila" :>
        [name |-> "Lila", attachment_style |-> "secure",
         openness |-> <<850>>, conscientiousness |-> <<800>>, extraversion |-> <<700>>,
         agreeableness |-> <<900>>, neuroticism |-> <<300>>, trust_level |-> <<700>>])
    @@ ("don" :>
        [name |-> "Don", attachment_style |-> "anxious",
         openness |-> <<>>, conscientiousness |-> <<0>>, extraversion |-> <<400>>,
         agreeableness |-> <<>>, neuroticism |-> <<600>>, trust_level |-> <<>>])
    @@ ("alex" :>
        [name |-> "Alex", attachment_style |-> "None",
         openness |-> <<750>>, conscientiousness |-> <<>>, extraversion |-> <<>>,
         agreeableness |-> <<700>>, neuroticism |-> <<>>, trust_level |-> <<700>>])

\* ORDER BY p.name over the nodes
PersonasByName == <<"alex", "don", "lila">>

\* the persona ids a reader puts in the resource address
PersonaArgs == Ids \cup {"nobody"}

\* a profile that reports a scalar that is not set as zero
personality_ZeroDefault(record) == [s \in Traits |-> COALESCE(record[s], 0)]

\* "personality": {"openness": record["openness"] or 0.5, ...}
personality(record) == [s \in Traits |-> OrDefault(record[s], 500)]

\* get_all_personas, the same in both servers, at time t with a connected
\* driver and a query that does not fail
get_all_personas(nodes, t) ==
    [personas |->
        [i \in DOMAIN PersonasByName |->
            [id |-> PersonasByName[i],
             name |-> nodes[PersonasByName[i]].name,
             attachment_style |-> nodes[PersonasByName[i]].attachment_style,
             personality |-> personality(nodes[PersonasByName[i]])]],
     count |-> Len(PersonasByName),
     last_updated |-> t]

\* get_persona_by_id, the same in both servers, at time t with a connected
\* driver and a query that does not fail
get_persona_by_id(nodes, persona_id, t) ==
    IF persona_id \notin DOMAIN nodes
    THEN [error |-> "Persona not found"]
    ELSE [persona |->
             [id |-> persona_id,
              name |-> nodes[persona_id].name,
              attachment_style |-> nodes[persona_id].attachment_style,
              personality |-> personality(nodes[persona_id]),
              trust_level |-> OrDefault(nodes[persona_id].trust_level, 500)],
          last_updated |-> t]

\* a resource of the graph server, or a persona resource of the fallback
\* server, at its guard and its except clause: document is what the try block
\* returns
Guarded(store_fails, message, document) ==
    IF ~driver THEN NotAvailable
    ELSE IF store_fails THEN [error |-> message]
    ELSE document

RECURSIVE OrderByStrengthDesc(_, _)
\* ORDER BY r.relationship_strength DESC over the edges ks of g
OrderByStrengthDesc(g, ks) ==
    IF ks = {} THEN <<>>
    ELSE LET k == CHOOSE x \in ks :
                     \A y \in ks : g[x].relationship_strength >= g[y].relationship_strength
         IN  <<k>> \o OrderByStrengthDesc(g, ks \ {k})

\* get_all_relationships of the graph server at time t: a directed match, so
\* one row an edge
Lila_get_all_relationships(g, t) ==
    LET ordered == OrderByStrengthDesc(g, DOMAIN g)
    IN  [relationships |->
            [i \in DOMAIN ordered |->
                [persona1_id |-> ordered[i][1], persona2_id |-> ordered[i][2],
                 trust_level |-> OrDefault(<<g[ordered[i]].trust_level>>, 5000),
                 intimacy_level |-> OrDefault(<<g[ordered[i]].intimacy_level>>, 5000),
                 relationship_strength |-> OrDefault(<<g[ordered[i]].relationship_strength>>, 5000),
                 interaction_count |-> OrDefault(g[ordered[i]].interaction_count, 0),
                 emotional_valence |-> OrDefault(g[ordered[i]].emotional_valence, 0)]],
         count |-> Len(ordered),
         last_updated |-> t]

\* get_all_relationships of the fallback server: the records of the map, the
\* two averages as the literals they are
Simple_get_all_relationships(m) ==
    [relationships |->
        {[persona1_id |-> k[1], persona2_id |-> k[2], metrics |-> m[k]] : k \in DOMAIN m},
     count |-> Cardinality(DOMAIN m),
     average_trust |-> 7500,
     average_intimacy |-> 6800]

\* a lookup that leaves a default record behind for a pair without one, as
\* dict.setdefault would
Simple_lookup_store_Creating(m, persona1_id, persona2_id) ==
    IF <<persona1_id, persona2_id>> \in DOMAIN m \/ <<persona2_id, persona1_id>> \in DOMAIN m
    THEN m
    ELSE [k \in DOMAIN m \cup {<<persona1_id, persona2_id>>} |->
            IF k \in DOMAIN m THEN m[k] ELSE Simple_apply(SimpleDefaultMetrics, 0, 0, 0, 0)]

\* self.mock_relationships after .get(key) and .get(reverse_key): dict.get
\* adds no key
Simple_lookup_store(m, persona1_id, persona2_id) == m

\* the resource personas/all, read from both servers
GetAllPersonas ==
    /\ \E store_fails \in StoreFailures :
          /\ call' = [op |-> "get_all_personas", store_fails |-> store_fails]
          /\ lila_result' = Guarded(store_fails, "Error retrieving personas",
                                    get_all_personas(PersonaNodes, now))
          /\ simple_result' = Guarded(store_fails, "Error retrieving personas",
                                      get_all_personas(PersonaNodes, now))
    /\ UNCHANGED <<driver, edges, mock_relationships, mock_interactions, now, calls, tasks, running, importer>>

\* the resource personas/{persona_id}, read from both servers
GetPersonaById ==
    /\ \E persona_id \in PersonaArgs, store_fails \in StoreFailures :
          /\ call' = [op |-> "get_persona_by_id", persona_id |-> persona_id,
                      store_fails |-> store_fails]
          /\ lila_result' = Guarded(store_fails, "Error retrieving persona",
                                    get_persona_by_id(PersonaNodes, persona_id, now))
          /\ simple_result' = Guarded(store_fails, "Error retrieving persona",
                                      get_persona_by_id(PersonaNodes, persona_id, now))
    /\ UNCHANGED <<driver, edges, mock_relationships, mock_interactions, now, calls, tasks, running, importer>>

\* the resource relationships/all, read from both servers
GetAllRelationships ==
    /\ \E store_fails \in StoreFailures :
          /\ call' = [op |-> "get_all_relationships", store_fails |-> store_fails]
          /\ lila_result' = Guarded(store_fails, "Error retrieving relationships",
                                    Lila_get_all_relationships(edges, now))
          /\ simple_result' = Simple_get_all_relationships(mock_relationships)
    /\ UNCHANGED <<driver, edges, mock_relationships, mock_interactions, now, calls, tasks, running, importer>>

\* the resource relationships/{persona1_id}/{persona2_id}, read from both
\* servers
GetRelationshipByPersonas ==
    /\ \E p \in CallPairs, store_fails \in StoreFailures :
          /\ call' = [op |-> "get_relationship_by_personas",
                      persona1_id |-> p[1], persona2_id |-> p[2],
                      store_fails |-> store_fails]
          /\ lila_result' = Guarded(store_fails, "Error retrieving relationship",
                                    Lila_get_relationship_by_personas(edges, p[1], p[2]))
          /\ mock_relationships' = Simple_lookup_store(mock_relationships, p[1], p[2])
          /\ simple_result' = Simple_get_relationship_by_personas(mock_relationships, p[1], p[2])
    /\ UNCHANGED <<driver, edges, mock_interactions, now, calls, tasks, running, importer>>

\* the tool calls of a session that reads
MaxSessionCalls == 1

SessionUpdateRelationshipMetrics == calls < MaxSessionCalls /\ UpdateRelationshipMetrics

SessionRecordInteraction == calls < MaxSessionCalls /\ RecordInteraction

NextResources ==
    \/ SessionUpdateRelationshipMetrics
    \/ SessionRecordInteraction
    \/ GetAllPersonas
    \/ GetPersonaById
    \/ GetAllRelationships
    \/ GetRelationshipByPersonas
    \/ GetRecentInteractions

\* the servers answering resource reads between tool calls
SpecResources == Init /\ [][NextResources]_vars

----------------------------------------------------------------------------
(* C17 *)

\* C17: when the persistent store could not be reached at startup, the
\* session degrades to the fallback adapter: every read and every tool call
\* after it is served from the in-memory fallback store rather than answered
\* with 'database not available'
C17_DegradesToFallback ==
    (~driver /\ call.op # "none") =>
        /\ lila_result # NotAvailable
        /\ simple_result # NotAvailable

----------------------------------------------------------------------------
(* C19 *)

\* C19: a persona read through the all-personas or the persona-by-id resource
\* has 0.5 for each of its five personality scalars that is not stored, and
\* none of the returned scalars is null
C19_MissingScalarIsHalf ==
    /\ (call.op = "get_persona_by_id" /\ Served(call) /\ call.persona_id \in DOMAIN PersonaNodes) =>
          \A s \in Traits :
              /\ lila_result.persona.personality[s] \in 0..1000
              /\ PersonaNodes[call.persona_id][s] = <<>>
                    => lila_result.persona.personality[s] = 500
    /\ (call.op = "get_all_personas" /\ Served(call)) =>
          /\ {lila_result.personas[i].id : i \in DOMAIN lila_result.personas} = DOMAIN PersonaNodes
          /\ \A i \in DOMAIN lila_result.personas, s \in Traits :
                /\ lila_result.personas[i].personality[s] \in 0..1000
                /\ PersonaNodes[lila_result.personas[i].id][s] = <<>>
                      => lila_result.personas[i].personality[s] = 500

\* C19 witness: don, who stores no openness, is read by id with openness 0.5
\* next to the extraversion of 0.4 the node stores
C19_Witness ==
    /\ call.op = "get_persona_by_id"
    /\ Served(call)
    /\ call.persona_id = "don"
    /\ PersonaNodes["don"].openness = <<>>
    /\ lila_result.persona.personality["openness"] = 500
    /\ lila_result.persona.personality["extraversion"] = 400

----------------------------------------------------------------------------
(* C20 *)

ReadOps ==
    {"get_all_personas", "get_persona_by_id", "get_all_relationships",
     "get_relationship_by_personas", "get_recent_interactions"}

\* the document the fallback server returns for the read c on the
\* relationships m and the interactions l
Simple_read(c, m, l) ==
    CASE c.op = "get_all_relationships" -> Simple_get_all_relationships(m)
      [] c.op = "get_relationship_by_personas" ->
           Simple_get_relationship_by_personas(m, c.persona1_id, c.persona2_id)
      [] c.op = "get_recent_interactions" -> Simple_get_recent_interactions(l, c.count)

\* C20: reading a resource leaves relationships and interactions as they were,
\* so the same read done again returns the same data; reading the relationship
\* of a pair without a record returns an error document and creates no record
C20_ReadsChangeNothing ==
    [][call'.op \in ReadOps =>
          /\ mock_relationships' = mock_relationships
          /\ mock_interactions' = mock_interactions
          /\ edges' = edges
          /\ call'.op \in {"get_all_relationships", "get_relationship_by_personas",
                           "get_recent_interactions"}
                => simple_result' = Simple_read(call', mock_relationships', mock_interactions')
          /\ (/\ call'.op = "get_relationship_by_personas"
              /\ ~HasRecord(mock_relationships, call'.persona1_id, call'.persona2_id))
                => /\ DOMAIN simple_result' = {"error"}
                   /\ ~HasRecord(mock_relationships', call'.persona1_id, call'.persona2_id)
    ]_vars

\* C20 witness: don and alex have no relationship, and the read of theirs
\* answered with an error and left the map without one
C20_Witness ==
    /\ call.op = "get_relationship_by_personas"
    /\ call.persona1_id = "don"
    /\ call.persona2_id = "alex"
    /\ DOMAIN simple_result = {"error"}
    /\ ~HasRecord(mock_relationships, "don", "alex")

----------------------------------------------------------------------------
(* Tool calls in flight: the coroutines of update_relationship_metrics *)

TaskIds == {1, 2}

\* the metrics in the order the handler updates them
MetricFields == <<"trust_level", "intimacy_level", "relationship_strength">>

\* the relationships two calls in flight address: the seeded one and one
\* that has no record, each call naming the pair in either order
SameRelationship ==
    { {<<"lila", "don">>, <<"don", "lila">>}, {<<"don", "alex">>, <<"alex", "don">>} }

\* two calls of update_relationship_metrics on one relationship arrive at one
\* server before either is answered
InitConcurrent ==
    /\ driver \in BOOLEAN
    /\ \E unset \in BOOLEAN : edges = GraphSeedEdges(unset)
    /\ mock_relationships = SimpleSeedRelationships(0)
    /\ mock_interactions = SimpleSeedInteractions(0)
    /\ now = 0
    /\ calls = 0
    /\ call = NoCall
    /\ lila_result = NoResult
    /\ simple_result = NoResult
    /\ \E server \in {"simple", "lila"}, rel \in SameRelationship :
          \E p \in [TaskIds -> rel], d \in [TaskIds -> DeltaTriples] :
             tasks = [t \in TaskIds |->
                         [server |-> server, persona1_id |-> p[t][1], persona2_id |-> p[t][2],
                          deltas |-> d[t], pc |-> "pending", metric |-> 1,
                          key |-> <<p[t][1], p[t][2]>>, tmp |-> 0, result |-> NoResult]]
    /\ running = 0
    /\ importer = NoImporter

\* threads that the scheduler switches between at any point
Runnable_Threads(t) == TRUE

\* the event loop executes one coroutine at a time and switches at an await
\* only; the handlers are async def without an await, so a call that started
\* runs to its return before another one starts
Runnable(t) == running = 0 \/ running = t

\* the event loop starts the coroutine of call t
StartTask(t) ==
    /\ tasks[t].pc = "pending"
    /\ Runnable(t)
    /\ tasks' = [tasks EXCEPT ![t].pc = IF tasks[t].server = "simple" THEN "find" ELSE "guard"]
    /\ running' = t
    /\ UNCHANGED <<driver, edges, mock_relationships, mock_interactions, now, calls, call,
                   lila_result, simple_result, importer>>

\* fallback server, "Find existing relationship": key, reverse key, or none
SimpleFind(t) ==
    /\ tasks[t].pc = "find"
    /\ Runnable(t)
    /\ LET key == Simple_find_key(mock_relationships, tasks[t].persona1_id, tasks[t].persona2_id)
       IN  tasks' = [tasks EXCEPT ![t].key = key,
                                  ![t].pc = IF key \in DOMAIN mock_relationships
                                            THEN "load" ELSE "create"]
    /\ running' = t
    /\ UNCHANGED <<driver, edges, mock_relationships, mock_interactions, now, calls, call,
                   lila_result, simple_result, importer>>

\* fallback server, "Create new relationship"
SimpleCreate(t) ==
    /\ tasks[t].pc = "create"
    /\ Runnable(t)
    /\ mock_relationships' =
          [k \in DOMAIN mock_relationships \cup {tasks[t].key} |->
              IF k = tasks[t].key THEN SimpleDefaultMetrics ELSE mock_relationships[k]]
    /\ tasks' = [tasks EXCEPT ![t].pc = "load"]
    /\ running' = t
    /\ UNCHANGED <<driver, edges, mock_interactions, now, calls, call, lila_result, simple_result, importer>>

\* fallback server, the right-hand side of metrics[field] = max(0, min(10,
\* metrics[field] + delta))
SimpleLoad(t) ==
    /\ tasks[t].pc = "load"
    /\ Runnable(t)
    /\ tasks' = [tasks EXCEPT
                    ![t].tmp = SimpleClamp(mock_relationships[tasks[t].key][MetricFields[tasks[t].metric]]
                                           + tasks[t].deltas[tasks[t].metric]),
                    ![t].pc = "store"]
    /\ running' = t
    /\ UNCHANGED <<driver, edges, mock_relationships, mock_interactions, now, calls, call,
                   lila_result, simple_result, importer>>

\* fallback server, the assignment to metrics[field]
SimpleStore(t) ==
    /\ tasks[t].pc = "store"
    /\ Runnable(t)
    /\ mock_relationships' =
          [mock_relationships EXCEPT ![tasks[t].key][MetricFields[tasks[t].metric]] = tasks[t].tmp]
    /\ tasks' = [tasks EXCEPT
                    ![t].metric = IF tasks[t].metric < Len(MetricFields)
                                  THEN tasks[t].metric + 1 ELSE tasks[t].metric,
                    ![t].pc = IF tasks[t].metric < Len(MetricFields) THEN "load" ELSE "stamp"]
    /\ running' = t
    /\ UNCHANGED <<driver, edges, mock_interactions, now, calls, call, lila_result, simple_result, importer>>

\* fallback server, metrics["last_updated"] = datetime.now().isoformat()
SimpleStamp(t) ==
    /\ tasks[t].pc = "stamp"
    /\ Runnable(t)
    /\ now' = now + 1
    /\ mock_relationships' =
          [k \in DOMAIN mock_relationships |->
              IF k = tasks[t].key
              THEN [trust_level |-> mock_relationships[k].trust_level,
                    intimacy_level |-> mock_relationships[k].intimacy_level,
                    relationship_strength |-> mock_relationships[k].relationship_strength,
                    last_updated |-> now']
              ELSE mock_relationships[k]]
    /\ tasks' = [tasks EXCEPT ![t].pc = "return"]
    /\ running' = t
    /\ UNCHANGED <<driver, edges, mock_interactions, calls, call, lila_result, simple_result, importer>>

\* fallback server, the return statement: the coroutine ends
SimpleReturn(t) ==
    /\ tasks[t].pc = "return"
    /\ tasks[t].server = "simple"
    /\ Runnable(t)
    /\ tasks' = [tasks EXCEPT
                    ![t].result =
                        [success |-> TRUE,
                         participants |-> <<tasks[t].persona1_id, tasks[t].persona2_id>>,
                         trust_level |-> Format2f(mock_relationships[tasks[t].key].trust_level),
                         intimacy_level |-> Format2f(mock_relationships[tasks[t].key].intimacy_level),
                         relationship_strength |->
                             Format2f(mock_relationships[tasks[t].key].relationship_strength)],
                    ![t].pc = "done"]
    /\ running' = 0
    /\ UNCHANGED <<driver, edges, mock_relationships, mock_interactions, now, calls, call,
                   lila_result, simple_result, importer>>

\* graph server, if not self.driver: the coroutine ends without a driver
LilaGuard(t) ==
    /\ tasks[t].pc = "guard"
    /\ Runnable(t)
    /\ tasks' = [tasks EXCEPT ![t].result = IF driver THEN NoResult ELSE NotAvailable,
                              ![t].pc = IF driver THEN "query" ELSE "done"]
    /\ running' = IF driver THEN t ELSE 0
    /\ UNCHANGED <<driver, edges, mock_relationships, mock_interactions, now, calls, call,
                   lila_result, simple_result, importer>>

\* graph server, session.run(...): the handler blocks until the store has run
\* the one query, and keeps its record
LilaQuery(t) ==
    /\ tasks[t].pc = "query"
    /\ Runnable(t)
    /\ now' = now + 1
    /\ edges' = Lila_update_store(edges, tasks[t].persona1_id, tasks[t].persona2_id,
                                  tasks[t].deltas[1], tasks[t].deltas[2], tasks[t].deltas[3], now')
    /\ tasks' = [tasks EXCEPT
                    ![t].tmp = Lila_update_result(edges', tasks[t].persona1_id, tasks[t].persona2_id),
                    ![t].pc = "return"]
    /\ running' = t
    /\ UNCHANGED <<driver, mock_relationships, mock_interactions, calls, call,
                   lila_result, simple_result, importer>>

\* graph server, the return statements: the coroutine ends
LilaReturn(t) ==
    /\ tasks[t].pc = "return"
    /\ tasks[t].server = "lila"
    /\ Runnable(t)
    /\ tasks' = [tasks EXCEPT ![t].result = tasks[t].tmp, ![t].pc = "done"]
    /\ running' = 0
    /\ UNCHANGED <<driver, edges, mock_relationships, mock_interactions, now, calls, call,
                   lila_result, simple_result, importer>>

NextConcurrent ==
    \E t \in TaskIds :
        \/ StartTask(t)
        \/ SimpleFind(t)
        \/ SimpleCreate(t)
        \/ SimpleLoad(t)
        \/ SimpleStore(t)
        \/ SimpleStamp(t)
        \/ SimpleReturn(t)
        \/ LilaGuard(t)
        \/ LilaQuery(t)
        \/ LilaReturn(t)

\* one server's event loop running two calls of update_relationship_metrics
SpecConcurrent == InitConcurrent /\ [][NextConcurrent]_vars

----------------------------------------------------------------------------
(* C18 *)

\* the three metrics of every record of a store
StoreMetrics(m) == [k \in DOMAIN m |-> [f \in MetricNames |-> m[k][f]]]

\* the fallback map after call a, then call b, were applied to the seeded map
\* one after the other
SimpleOneAfterTheOther(a, b) ==
    Simple_update_store(
        Simple_update_store(SimpleSeedRelationships(0),
                            tasks[a].persona1_id, tasks[a].persona2_id,
                            tasks[a].deltas[1], tasks[a].deltas[2], tasks[a].deltas[3], 0),
        tasks[b].persona1_id, tasks[b].persona2_id,
        tasks[b].deltas[1], tasks[b].deltas[2], tasks[b].deltas[3], 0)

\* the edges after call a, then call b, were applied to the seeded graph
LilaOneAfterTheOther(a, b) ==
    Lila_update_store(
        Lila_update_store(GraphSeedEdges(TRUE),
                          tasks[a].persona1_id, tasks[a].persona2_id,
                          tasks[a].deltas[1], tasks[a].deltas[2], tasks[a].deltas[3], 0),
        tasks[b].persona1_id, tasks[b].persona2_id,
        tasks[b].deltas[1], tasks[b].deltas[2], tasks[b].deltas[3], 0)

BothDone == tasks # NoTasks /\ \A t \in TaskIds : tasks[t].pc = "done"

\* C18: two concurrent calls of update_relationship_metrics on one
\* relationship are serialized: the final trust, intimacy and strength are
\* those of the two updates applied one after the other in one of the two
\* orders (no update is lost), and every intermediate and final value is
\* within [0, 10]
C18_ConcurrentUpdatesSerialized ==
    /\ \A k \in DOMAIN mock_relationships, f \in MetricNames : InRange(mock_relationships[k][f])
    /\ \A k \in DOMAIN edges, f \in MetricNames : InRange(edges[k][f])
    /\ (BothDone /\ tasks[1].server = "simple") =>
          StoreMetrics(mock_relationships)
             \in {StoreMetrics(SimpleOneAfterTheOther(1, 2)), StoreMetrics(SimpleOneAfterTheOther(2, 1))}
    /\ (BothDone /\ tasks[1].server = "lila" /\ driver) =>
          StoreMetrics(edges)
             \in {StoreMetrics(LilaOneAfterTheOther(1, 2)), StoreMetrics(LilaOneAfterTheOther(2, 1))}

\* C18 witness: a lowering of trust by 10 and a raising of it by 1.236 were
\* both in flight on the fallback server, and the trust left is that of the
\* lowering applied first: 1.236
C18_Witness ==
    /\ BothDone
    /\ tasks[1].server = "simple"
    /\ tasks[1].deltas = <<-10000, 0, 0>>
    /\ tasks[2].deltas = <<1236, -10000, 10000>>
    /\ tasks[1].persona1_id = "lila"
    /\ tasks[2].persona1_id = "don"
    /\ mock_relationships[<<"lila", "don">>].trust_level = 1236

----------------------------------------------------------------------------
(* C21 *)

\* C21: for the same attachment style, context and goals, the fallback
\* server's autonomous_strategy_selection selects the strategy the graph
\* server's precedence rules select; a secure persona with no context and no
\* goals gets the first secure strategy from both
C21_SameStrategyInBothServers ==
    (/\ call.op = "autonomous_strategy_selection"
     /\ call.persona_id \in DOMAIN mock_personas
     /\ call.attachment_style = mock_personas[call.persona_id]) =>
        simple_result.selected_strategy = lila_result.selected_strategy

----------------------------------------------------------------------------
(* The data importer: Neo4jDataImporter and main of import_data.py *)

\* max_retries of __init__ when the caller passes none, as main does
DefaultMaxRetries == 30

\* the largest max_retries a caller of the constructor passes
MaxRetriesArg == 3

\* seconds of time.sleep after a failed attempt
RetryDelay == 2

\* the importer whose constructor was just entered: self.driver = None, and
\* the loop of _connect_with_retry at its first iteration
NewImporter(entry, max_retries, seed_exists, create_defaults) ==
    [pc |-> "connect", entry |-> entry, max_retries |-> max_retries,
     seed_exists |-> seed_exists, create_defaults |-> create_defaults,
     attempt |-> 0, attempts |-> 0, sleeps |-> 0, waited |-> 0,
     driver |-> "None", steps |-> <<>>, exit |-> -1]

\* the importer is run by main, with the default max_retries, or its
\* constructor is called with a max_retries of the caller's; the servers are
\* not running
InitImport ==
    /\ driver = FALSE
    /\ edges = GraphSeedEdges(TRUE)
    /\ mock_relationships = SimpleSeedRelationships(0)
    /\ mock_interactions = SimpleSeedInteractions(0)
    /\ now = 0
    /\ calls = 0
    /\ call = NoCall
    /\ lila_result = NoResult
    /\ simple_result = NoResult
    /\ tasks = NoTasks
    /\ running = 0
    /\ \/ \E seed_exists \in BOOLEAN, create_defaults \in BOOLEAN :
             importer = NewImporter("main", DefaultMaxRetries, seed_exists, create_defaults)
       \/ \E max_retries \in 0..MaxRetriesArg :
             importer = NewImporter("constructor", max_retries, FALSE, FALSE)

servers == <<driver, edges, mock_relationships, mock_interactions, now, calls, call,
             lila_result, simple_result, tasks, running>>

\* a loop that waits after its last failed attempt as well
IsLastAttempt_Never(attempt, max_retries) == FALSE

\* the else of  if attempt < self.max_retries - 1
IsLastAttempt(attempt, max_retries) == ~(attempt < max_retries - 1)

\* one iteration of the loop of _connect_with_retry: the driver is created and
\* the test query run; either may raise
ConnectAttempt ==
    /\ importer.pc = "connect"
    /\ importer.attempt < importer.max_retries
    /\ \E outcome \in {"connected", "driver_raises", "query_raises"} :
          importer' =
             IF outcome = "connected"
             THEN [importer EXCEPT !.driver = "connected",
                                   !.attempts = importer.attempts + 1,
                                   !.pc = "constructed"]
             ELSE [importer EXCEPT
                      !.driver = IF outcome = "query_raises" THEN "unverified" ELSE importer.driver,
                      !.attempts = importer.attempts + 1,
                      !.pc = IF IsLastAttempt(importer.attempt, importer.max_retries)
                             THEN "raised" ELSE "sleep"]
    /\ UNCHANGED servers

\* time.sleep(2), and the next iteration
Sleep ==
    /\ importer.pc = "sleep"
    /\ importer' = [importer EXCEPT !.sleeps = importer.sleeps + 1,
                                    !.waited = importer.waited + RetryDelay,
                                    !.attempt = importer.attempt + 1,
                                    !.pc = "connect"]
    /\ UNCHANGED servers

\* range(self.max_retries) is used up: the method returns
RangeExhausted ==
    /\ importer.pc = "connect"
    /\ ~(importer.attempt < importer.max_retries)
    /\ importer' = [importer EXCEPT !.pc = "constructed"]
    /\ UNCHANGED servers

\* a handler that reports the failure and goes on with the schema
Main_except_GoesOn(imp) == [imp EXCEPT !.pc = "constructed"]

\* except Exception of main: the failure is printed, sys.exit(1)
Main_except(imp) == [imp EXCEPT !.pc = "exited", !.exit = 1]

\* an exception reaches the except clause of main
MainExcept ==
    /\ importer.pc = "raised"
    /\ importer.entry = "main"
    /\ importer' = Main_except(importer)
    /\ UNCHANGED servers

\* importer.load_schema(schema_path): it catches what it raises
LoadSchema ==
    /\ importer.pc = "constructed"
    /\ importer.entry = "main"
    /\ importer' = [importer EXCEPT !.steps = Append(importer.steps, "load_schema"),
                                    !.pc = "seed"]
    /\ UNCHANGED servers

\* the seed data file exists: import_seed_data, which catches what it raises;
\* else --create-defaults: create_default_personas, which may raise; else
\* neither
SeedOrDefaults ==
    /\ importer.pc = "seed"
    /\ \E raises \in BOOLEAN :
          importer' =
             IF importer.seed_exists
             THEN [importer EXCEPT !.steps = Append(importer.steps, "import_seed_data"),
                                   !.pc = "verify"]
             ELSE IF importer.create_defaults
             THEN [importer EXCEPT !.steps = Append(importer.steps, "create_default_personas"),
                                   !.pc = IF raises \/ importer.driver # "connected"
                                          THEN "raised" ELSE "verify"]
             ELSE [importer EXCEPT !.pc = "verify"]
    /\ UNCHANGED servers

\* importer.verify_import(): it may raise
VerifyImport ==
    /\ importer.pc = "verify"
    /\ \E raises \in BOOLEAN :
          importer' = [importer EXCEPT !.steps = Append(importer.steps, "verify_import"),
                                       !.pc = IF raises \/ importer.driver # "connected"
                                              THEN "raised" ELSE "close"]
    /\ UNCHANGED servers

\* importer.close(), the last print, and the end of main
Close ==
    /\ importer.pc = "close"
    /\ importer' = [importer EXCEPT !.pc = "exited", !.exit = 0]
    /\ UNCHANGED servers

NextImport ==
    \/ ConnectAttempt
    \/ Sleep
    \/ RangeExhausted
    \/ MainExcept
    \/ LoadSchema
    \/ SeedOrDefaults
    \/ VerifyImport
    \/ Close

\* a run of the importer
SpecImport == InitImport /\ [][NextImport]_vars

\* a run of the importer that does not stop while it has a step to take
SpecImportFair == InitImport /\ [][NextImport]_vars /\ WF_vars(NextImport)

----------------------------------------------------------------------------
(* C22 *)

\* _connect_with_retry has returned or raised
ConnectOver == importer.pc \notin {"none", "connect", "sleep"}

\* the attempts made so far that failed
FailedAttempts ==
    importer.attempts - (IF importer.driver = "connected" THEN 1 ELSE 0)

\* at most max_retries attempts are made; a delay of RetryDelay follows every
\* failed attempt but the last of the range
C22_AttemptsAndDelays ==
    importer.pc # "none" =>
       /\ importer.attempts <= importer.max_retries
       /\ importer.waited = RetryDelay * importer.sleeps
       /\ importer.max_retries > 0 => importer.sleeps < importer.max_retries
       /\ importer.sleeps = FailedAttempts
                            - (IF \/ importer.pc = "sleep"
                                  \/ FailedAttempts = importer.max_retries /\ FailedAttempts > 0
                               THEN 1 ELSE 0)

\* C22: _connect_with_retry always terminates: it makes at most max_retries
\* attempts, makes no attempt after the first that succeeds, and waits one
\* fixed delay after each failed attempt except the last
C22_ConnectTerminates ==
    /\ []C22_AttemptsAndDelays
    /\ [][importer.driver = "connected" =>
             /\ importer'.attempts = importer.attempts
             /\ importer'.sleeps = importer.sleeps]_vars
    /\ <>ConnectOver

\* the connection succeeds at the third attempt, after two delays
C22_Witness ==
    /\ importer.pc = "constructed"
    /\ importer.driver = "connected"
    /\ importer.attempts = 3
    /\ importer.sleeps = 2

----------------------------------------------------------------------------
(* C23 *)

\* _connect_with_retry is over and each of its max_retries attempts failed
EveryAttemptFailed ==
    /\ ConnectOver
    /\ importer.max_retries > 0
    /\ FailedAttempts = importer.max_retries

\* C23: when every one of the max_retries attempts fails, the connection
\* routine raises, and only after the last attempt; main then exits with a
\* failure status, and neither the schema load, the seed import, the creation
\* of default personas nor the verification runs
C23_FailedConnectionHalts ==
    /\ EveryAttemptFailed =>
          /\ importer.pc \in {"raised", "exited"}
          /\ importer.steps = <<>>
          /\ importer.pc = "exited" => importer.exit = 1
    /\ (importer.pc = "raised" /\ importer.steps = <<>>) =>
          importer.attempts = importer.max_retries

\* main has exited with status 1 after DefaultMaxRetries failed attempts
C23_Witness ==
    /\ importer.pc = "exited"
    /\ importer.entry = "main"
    /\ importer.exit = 1
    /\ importer.attempts = DefaultMaxRetries
    /\ importer.driver # "connected"

----------------------------------------------------------------------------
(* C30 *)

\* C30: whenever the construction of a Neo4jDataImporter completes without
\* raising, for every max_retries >= 0, its driver is a connection whose test
\* query succeeded
C30_ConstructedIsConnected ==
    importer.pc = "constructed" => importer.driver = "connected"

----------------------------------------------------------------------------
(* record_interaction against the millisecond clock *)

\* milliseconds that pass between two calls: none, or one
Elapsed == {0, 1}

\* the tool call record_interaction, issued to both servers; datetime.now()
\* of this call reads the millisecond of the call before it, or a later one
RecordInteractionAtClock ==
    /\ calls < MaxCalls
    /\ \E p \in CallPairs, v \in Valences, n \in ContentLengths, i \in Impacts,
          store_fails \in StoreFailures, elapsed \in Elapsed :
          /\ now' = now + elapsed
          /\ calls' = calls + 1
          /\ call' = [op |-> "record", persona1_id |-> p[1], persona2_id |-> p[2],
                      deltas |-> <<0, 0, 0>>, emotional_valence |-> v,
                      store_fails |-> store_fails]
          /\ Lila_record_interaction(p[1], p[2], n, v, i, store_fails, now')
          /\ Simple_record_interaction(p[1], p[2], n, v, i, now')
    /\ UNCHANGED <<driver, tasks, running, importer>>

NextInstant == RecordInteractionAtClock

\* record_interaction calls that may fall in the same millisecond
SpecInstant == Init /\ [][NextInstant]_vars

----------------------------------------------------------------------------
(* C24 *)

\* C24: every record_interaction call yields an interaction_id that differs
\* from the ids recorded before it, also when two calls name the same sender
\* and recipient at the same clock instant; here for a call and the call
\* right after it, both served by the graph server
C24_InteractionIdsDiffer ==
    [][(/\ call.op = "record" /\ call'.op = "record"
        /\ driver /\ ~call.store_fails /\ ~call'.store_fails) =>
           lila_result'.interaction_id # lila_result.interaction_id]_vars

----------------------------------------------------------------------------
(* The fallback store over a session: tools, commit tools and reads *)

\* the tool calls of a session that commits and reads
MaxStoreCalls == 2

StoreUpdateRelationshipMetrics == calls < MaxStoreCalls /\ UpdateRelationshipMetrics

StoreRecordInteraction == calls < MaxStoreCalls /\ RecordInteraction

\* a commit that empties the interaction list
Simple_commit_store_Clearing(l) == <<>>

\* self.mock_interactions after commit_relationship_state or
\* finalize_demo_session: neither tool assigns to it
Simple_commit_store(l) == l

\* the tool call commit_relationship_state, a tool of the fallback server only
CommitRelationshipState ==
    /\ \E p \in CallPairs :
          /\ call' = [op |-> "commit_relationship_state",
                      persona1_id |-> p[1], persona2_id |-> p[2], store_fails |-> FALSE]
          /\ simple_result' = [success |-> TRUE, participants |-> <<p[1], p[2]>>,
                               timestamp |-> now]
    /\ mock_interactions' = Simple_commit_store(mock_interactions)
    /\ lila_result' = NoResult
    /\ UNCHANGED <<driver, edges, mock_relationships, now, calls, tasks, running, importer>>

\* the tool call finalize_demo_session, a tool of the fallback server only
FinalizeDemoSession ==
    /\ call' = [op |-> "finalize_demo_session", store_fails |-> FALSE]
    /\ simple_result' = [success |-> TRUE,
                         committed_relationships |-> Cardinality(DOMAIN mock_relationships),
                         timestamp |-> now]
    /\ mock_interactions' = Simple_commit_store(mock_interactions)
    /\ lila_result' = NoResult
    /\ UNCHANGED <<driver, edges, mock_relationships, now, calls, tasks, running, importer>>

NextStore ==
    \/ StoreUpdateRelationshipMetrics
    \/ StoreRecordInteraction
    \/ CommitRelationshipState
    \/ FinalizeDemoSession
    \/ GetAllRelationships
    \/ GetRelationshipByPersonas
    \/ GetRecentInteractions

\* both servers constructed, the graph server without a connection: the
\* session runs on the fallback store
InitStore == Init /\ ~driver

\* a session of tool calls, commits and reads
SpecStore == InitStore /\ [][NextStore]_vars

----------------------------------------------------------------------------
(* C25 *)

\* the interactions of old are all in new, each with every field as it was,
\* in the same order, below the ones recorded since
KeptBelow(old, new) ==
    /\ Len(new) >= Len(old)
    /\ \A i \in 1..Len(old) : new[i + (Len(new) - Len(old))] = old[i]

\* C25: an interaction in the fallback store is not changed and not removed
\* by any later record_interaction, update_relationship_metrics, commit or
\* finalize tool call or resource read, and the number of stored interactions
\* never decreases
C25_InteractionsKept ==
    [][KeptBelow(mock_interactions, mock_interactions')]_vars

\* two interactions were recorded after the seeded one, and a commit followed
C25_Witness ==
    /\ Len(mock_interactions) = 3
    /\ call.op = "commit_relationship_state"

----------------------------------------------------------------------------
(* C26 *)

\* C26: in every state of the fallback server both persona ids of every
\* relationship record and the sender and recipient of every interaction are
\* ids of existing personas; update_relationship_metrics and
\* record_interaction naming a persona that does not exist store nothing
C26_StoredIdsArePersonas ==
    /\ \A k \in DOMAIN mock_relationships :
          k[1] \in DOMAIN mock_personas /\ k[2] \in DOMAIN mock_personas
    /\ \A i \in DOMAIN mock_interactions :
          /\ mock_interactions[i].sender_id \in DOMAIN mock_personas
          /\ mock_interactions[i].recipient_id \in DOMAIN mock_personas

----------------------------------------------------------------------------
(* C27 *)

\* C27: with the stored emotional_valence of every relationship unset or
\* within [-1, 1] at the start and every passed valence within [-1, 1], the
\* stored valence is within [-1, 1] after any sequence of record_interaction
\* calls
C27_ValenceWithinUnit ==
    \A k \in DOMAIN edges :
       \/ edges[k].emotional_valence = <<>>
       \/ /\ -ValOne <= edges[k].emotional_valence[1]
          /\ edges[k].emotional_valence[1] <= ValOne

\* two interactions of valence 1.0 were recorded on one relationship: 0.75
C27_Witness ==
    /\ call.op = "record"
    /\ \E k \in DOMAIN edges :
          /\ edges[k].interaction_count = <<2>>
          /\ edges[k].emotional_valence = <<(3 * ValOne) \div 4>>

----------------------------------------------------------------------------
(* C28 *)

\* C28: after update_relationship_metrics of the graph server reports trust,
\* intimacy and strength for a pair, the relationship-by-pair resource read
\* for that pair, with no mutation in between, reports the same three values,
\* also for a metric clamped to 0.0
C28_ReadAfterUpdate ==
    (/\ call.op = "update"
     /\ Served(call)
     /\ "trust_level" \in DOMAIN lila_result) =>
        LET read == Lila_get_relationship_by_personas(edges, call.persona1_id, call.persona2_id)
        IN  /\ read.trust_level = lila_result.trust_level
            /\ read.intimacy_level = lila_result.intimacy_level
            /\ read.relationship_strength = lila_result.relationship_strength

----------------------------------------------------------------------------
(* C29 *)

\* the graph server's response lists its selected_strategy among its
\* available_strategies
SelectedIsAvailable ==
    \E i \in DOMAIN lila_result.available_strategies :
       lila_result.available_strategies[i] = lila_result.selected_strategy

\* C29 as stated: for every attachment style, context and goals, the
\* selected_strategy of the graph server's autonomous_strategy_selection is
\* one of the available_strategies of the same response
C29_SelectedAmongAvailable ==
    call.op = "autonomous_strategy_selection" => SelectedIsAvailable

\* C29: the selected_strategy is one of the available_strategies of the same
\* response exactly when the style is secure or not a recognized one, or no
\* rule before the last applies, or the style is anxious and the first rule
\* applies, or the style is avoidant and the first or the second rule applies
C29_SelectedAmongAvailableWhen ==
    call.op = "autonomous_strategy_selection" =>
        LET rule == C13_Rule(call.conversation_context, call.active_goals)
            style == call.attachment_style
        IN  SelectedIsAvailable <=>
               \/ style \notin {"anxious", "avoidant", "exploratory"}
               \/ rule = 5
               \/ style = "anxious" /\ rule = 1
               \/ style = "avoidant" /\ rule \in {1, 2}

\* a style that is not recognized, goals that name trust: trust_building,
\* of the secure list
C29_Witness ==
    /\ call.op = "autonomous_strategy_selection"
    /\ call.attachment_style = "disorganized"
    /\ lila_result.selected_strategy = "trust_building"
    /\ SelectedIsAvailable

====
